---- MODULE Spec2Model ----
(***************************************************************************)
(* The COSEM ACSE association services of src/src/csm_association.c:       *)
(* csm_asso_init, csm_asso_execute and everything they call (the AARQ      *)
(* decode chain, csm_asso_is_granted, the AARE encode chain, the RLRQ      *)
(* handler), modelled on the bytes of the packets.                         *)
(*                                                                         *)
(* The byte cursor (csm_array), the BER header primitives (csm_ber), the   *)
(* A-XDR null reader and the system services are not in the source file;   *)
(* they are modelled from the collaborator contracts of the design         *)
(* document (sections 2 and 6).                                            *)
(***************************************************************************)
EXTENDS Integers, Sequences, FiniteSets, TLC

VARIABLES
    state_cf,          \* csm_asso_state.state_cf
    auth_level,        \* csm_asso_state.auth_level
    ref,               \* csm_asso_state.ref
    client_app_title,  \* csm_asso_state.client_app_title
    handshake,         \* csm_asso_state.handshake
    config,            \* *csm_asso_state.config (read only)
    packet,            \* the csm_array handed to the last csm_asso_execute, as the call left it
    bytes_to_reply,    \* the value the last csm_asso_execute returned
    call,              \* history: the call that produced packet and bytes_to_reply
    ncalls             \* history: the number of packets handed over so far

vars == <<state_cf, auth_level, ref, client_app_title, handshake, config,
          packet, bytes_to_reply, call, ncalls>>

(***************************************************************************)
(* Enumerations and wire constants                                         *)
(***************************************************************************)
CF_IDLE == "CF_IDLE"
CF_ASSOCIATION_PENDING == "CF_ASSOCIATION_PENDING"
CF_ASSOCIATED == "CF_ASSOCIATED"

\* enum acse_context
ACSE_NONE == "ACSE_NONE"
ACSE_ANY == "ACSE_ANY"
ACSE_OPT == "ACSE_OPT"
ACSE_SEC == "ACSE_SEC"

\* csm_acse_code
CSM_ACSE_ERR == FALSE
CSM_ACSE_OK == TRUE

\* referencing: the last arc of the application context name
NO_REF == 0
LN_REF == 1
SN_REF == 2
LN_REF_WITH_CYPHERING == 3
SN_REF_WITH_CYPHERING == 4

\* authentication mechanism: the last arc of the mechanism name
CSM_AUTH_LOWEST_LEVEL == 0
CSM_AUTH_LOW_LEVEL == 1
CSM_AUTH_HIGH_LEVEL_GMAC == 5

\* Associate-source-diagnostic, acse-service-user
CSM_ASSO_ERR_NULL == 0
CSM_ASSO_AUTH_UNKNOWN == 11
CSM_ASSO_ERR_AUTH_FAILURE == 13
CSM_ASSO_AUTH_REQUIRED == 14

\* Object identifier names
APP_CONTEXT_NAME == 1
SECURITY_MECHANISM_NAME == 2

\* {0x60, 0x85, 0x74, 0x05, 0x08}
cOidHeader == <<96, 133, 116, 5, 8>>

\* APDU tags
CSM_ASSO_AARQ == 96
CSM_ASSO_AARE == 97
CSM_ASSO_RLRQ == 98
CSM_ASSO_RLRE == 99

\* AARQ field tags: context class, [n] of the AARQ grammar
CSM_ASSO_PROTO_VER == 128
CSM_ASSO_APP_CONTEXT_NAME == 161
CSM_ASSO_CALLED_AP_TITLE == 162
CSM_ASSO_CALLED_AE_QUALIFIER == 163
CSM_ASSO_CALLED_AP_INVOC_ID == 164
CSM_ASSO_CALLED_AE_INVOC_ID == 165
CSM_ASSO_CALLING_AP_TITLE == 166
CSM_ASSO_CALLING_AE_QUALIFIER == 167
CSM_ASSO_CALLING_AP_INVOC_ID == 168
CSM_ASSO_CALLING_AE_INVOC_ID == 169
CSM_ASSO_SENDER_ACSE_REQU == 138
CSM_ASSO_REQ_MECHANISM_NAME == 139
CSM_ASSO_CALLING_AUTH_VALUE == 172
CSM_ASSO_IMPLEMENTATION_INFO == 189
CSM_ASSO_USER_INFORMATION == 190

\* AARE field tags: context class, [n] of the AARE grammar
CSM_ASSO_RESULT_FIELD == 162
CSM_ASSO_RESULT_SRC_DIAG == 163
CSM_ASSO_RESP_AP_TITLE == 164
CSM_ASSO_RESPONDER_ACSE_REQ == 136
CSM_ASSO_RESP_MECHANISM_NAME == 137
CSM_ASSO_RESP_AUTH_VALUE == 170
CSM_ASSO_RESULT_SERVICE_USER == 161

\* universal BER types and classes
BER_TYPE_INTEGER == 2
BER_TYPE_OCTET_STRING == 4
BER_TYPE_OBJECT_IDENTIFIER == 6
TAG_CONTEXT_SPECIFIC == 128

\* A-XDR
AXDR_TAG_NULL == 0
AXDR_INITIATE_REQUEST == 1
AXDR_INITIATE_RESPONSE == 8

\* configuration
CSM_DEF_APP_TITLE_SIZE == 8
CSM_DEF_LLS_SIZE == 8
CSM_DEF_CHALLENGE_SIZE == 64
CSM_DEF_PDU_SIZE == 512

(***************************************************************************)
(* csm_array: a byte buffer of capacity size, with a read and a write      *)
(* index.  buff holds the bytes that were ever written; the bytes of the   *)
(* buffer beyond them are never read.                                      *)
(***************************************************************************)
csm_array_unread(array) ==
    IF array.wr_index >= array.rd_index THEN array.wr_index - array.rd_index ELSE 0

csm_array_get(array, index) ==
    IF index < array.wr_index
    THEN [ok |-> TRUE, byte |-> array.buff[index + 1]]
    ELSE [ok |-> FALSE, byte |-> 0]

csm_array_set(array, index, byte) ==
    IF index < array.wr_index
    THEN [ok |-> TRUE, array |-> [array EXCEPT !.buff[index + 1] = byte % 256]]
    ELSE [ok |-> FALSE, array |-> array]

csm_array_read_u8(array) ==
    IF array.rd_index < array.wr_index
    THEN [ok |-> TRUE, byte |-> array.buff[array.rd_index + 1],
          array |-> [array EXCEPT !.rd_index = @ + 1]]
    ELSE [ok |-> FALSE, byte |-> 0, array |-> array]

csm_array_read_u16(array) ==
    IF csm_array_unread(array) >= 2
    THEN [ok |-> TRUE,
          value |-> array.buff[array.rd_index + 1] * 256 + array.buff[array.rd_index + 2],
          array |-> [array EXCEPT !.rd_index = @ + 2]]
    ELSE [ok |-> FALSE, value |-> 0, array |-> array]

csm_array_read_buff(array, size) ==
    IF csm_array_unread(array) >= size
    THEN [ok |-> TRUE,
          value |-> SubSeq(array.buff, array.rd_index + 1, array.rd_index + size),
          array |-> [array EXCEPT !.rd_index = @ + size]]
    ELSE [ok |-> FALSE, value |-> <<>>, array |-> array]

csm_array_reader_jump(array, nb_bytes) ==
    IF csm_array_unread(array) >= nb_bytes
    THEN [ok |-> TRUE, array |-> [array EXCEPT !.rd_index = @ + nb_bytes]]
    ELSE [ok |-> FALSE, array |-> array]

csm_array_write_u8(array, byte) ==
    IF array.wr_index < array.size
    THEN [ok |-> TRUE,
          array |-> [array EXCEPT
                       !.buff = IF array.wr_index < Len(@)
                                THEN [@ EXCEPT ![array.wr_index + 1] = byte]
                                ELSE Append(@, byte),
                       !.wr_index = @ + 1]]
    ELSE [ok |-> FALSE, array |-> array]

RECURSIVE csm_array_write_buff(_, _)
csm_array_write_buff(array, bytes) ==
    IF array.wr_index + Len(bytes) > array.size THEN [ok |-> FALSE, array |-> array]
    ELSE IF bytes = <<>> THEN [ok |-> TRUE, array |-> array]
    ELSE csm_array_write_buff(csm_array_write_u8(array, Head(bytes)).array, Tail(bytes))

(***************************************************************************)
(* csm_ber: one tag + length header.  A header is                          *)
(*   tag (tag.tag), id (tag.id), isPrimitive, ext (tag.ext, the second     *)
(*   byte of a long tag), length (length.length).                          *)
(* Each part is stored as soon as it is read; decoding fails only when the *)
(* cursor runs out of bytes.  A long length keeps its low 24 bits (no      *)
(* packet of the model is longer than its buffer of 256 bytes).            *)
(***************************************************************************)
RECURSIVE csm_ber_read_long_len(_, _, _)
csm_ber_read_long_len(array, numoct, acc) ==
    IF numoct = 0 THEN [ok |-> TRUE, length |-> acc, array |-> array]
    ELSE LET r == csm_array_read_u8(array)
         IN  IF r.ok
             THEN csm_ber_read_long_len(r.array, numoct - 1, (acc % 65536) * 256 + r.byte)
             ELSE [ok |-> FALSE, length |-> acc, array |-> r.array]

csm_ber_decode_tag(ber, array) ==
    LET Long(b1, e) ==
            IF e.ok
            THEN [ok |-> TRUE, ber |-> [b1 EXCEPT !.ext = e.byte], array |-> e.array]
            ELSE [ok |-> FALSE, ber |-> b1, array |-> e.array]
        Short(b1, r) ==
            IF r.byte % 32 = 31
            THEN Long(b1, csm_array_read_u8(r.array))
            ELSE [ok |-> TRUE, ber |-> b1, array |-> r.array]
        Tag(r) ==
            IF ~r.ok THEN [ok |-> FALSE, ber |-> ber, array |-> array]
            ELSE Short([ber EXCEPT !.tag = r.byte, !.id = r.byte % 32,
                                   !.isPrimitive = ((r.byte \div 32) % 2 = 0)], r)
    IN  Tag(csm_array_read_u8(array))

csm_ber_decode_len(ber, array) ==
    LET Long(l) == [ok |-> l.ok, ber |-> [ber EXCEPT !.length = l.length], array |-> l.array]
        Length(r) ==
            IF ~r.ok THEN [ok |-> FALSE, ber |-> ber, array |-> array]
            ELSE IF r.byte >= 128
            THEN Long(csm_ber_read_long_len(r.array, r.byte % 128, 0))
            ELSE [ok |-> TRUE, ber |-> [ber EXCEPT !.length = r.byte], array |-> r.array]
    IN  Length(csm_array_read_u8(array))

csm_ber_decode(ber, array) ==
    LET Length(t) == IF t.ok THEN csm_ber_decode_len(t.ber, t.array) ELSE t
    IN  Length(csm_ber_decode_tag(ber, array))

csm_ber_write_len(array, len) ==
    IF len < 128 THEN csm_array_write_u8(array, len)
    ELSE LET Low(w) == IF w.ok THEN csm_array_write_u8(w.array, len % 256) ELSE w
         IN  Low(csm_array_write_u8(array, 129))

csm_ber_write_integer(array, value) ==
    LET Then(w, byte) == IF w.ok THEN csm_array_write_u8(w.array, byte) ELSE w
    IN  Then(Then(Then(csm_ber_write_len(array, 3), BER_TYPE_INTEGER), 1), value % 256)

\* the 5 bytes of oid.header, then the name and the id
csm_ber_decode_object_identifier(oid, array) ==
    LET Id(n, i) ==
            IF ~i.ok THEN [ok |-> FALSE, name |-> n.byte, id |-> 0, array |-> i.array]
            ELSE [ok |-> TRUE, name |-> n.byte, id |-> i.byte, array |-> i.array]
        Name(n) ==
            IF ~n.ok THEN [ok |-> FALSE, name |-> 0, id |-> 0, array |-> n.array]
            ELSE Id(n, csm_array_read_u8(n.array))
        Header(h) ==
            IF ~h.ok THEN [ok |-> FALSE, name |-> 0, id |-> 0, array |-> h.array]
            ELSE IF h.value # oid.header
            THEN [ok |-> FALSE, name |-> 0, id |-> 0, array |-> h.array]
            ELSE Name(csm_array_read_u8(h.array))
    IN  Header(csm_array_read_buff(array, oid.size))

csm_axdr_rd_null(array) ==
    LET r == csm_array_read_u8(array)
    IN  [ok |-> r.ok /\ r.byte = AXDR_TAG_NULL, array |-> r.array]

(***************************************************************************)
(* System services                                                         *)
(***************************************************************************)
\* the device's system title
csm_sys_get_system_title == <<83, 89, 83, 0, 0, 0, 0, 1>>

\* the password configured for each destination access point
LlsPassword(dsap) == <<65, 66, 67, 68, 69, 70, 71, 48 + dsap>>

csm_sys_test_lls_password(dsap, value, size) ==
    /\ size = Len(LlsPassword(dsap))
    /\ value = LlsPassword(dsap)

\* the i-th byte (i = 0, 1, ...) the random source returns in a call whose
\* environment is env
csm_sys_get_random_u8(env, i) == (env.seed * 85 + 17 * (i + 1)) % 256

(***************************************************************************)
(* DECODERS.  Each takes the association state, the current header and the *)
(* cursor, and returns its code together with what it left of the three.   *)
(***************************************************************************)
Res(ret, state, ber, array) == [ret |-> ret, state |-> state, ber |-> ber, array |-> array]

\* valid = valid && csm_array_read_u8(array, &byte): s = [valid, byte, array]
AndReadU8(s) ==
    IF s.valid
    THEN LET r == csm_array_read_u8(s.array)
         IN  [valid |-> r.ok, byte |-> IF r.ok THEN r.byte ELSE s.byte, array |-> r.array]
    ELSE s

acse_proto_version_decoder(state, ber, array) ==
    IF ber.length = 2
    THEN LET u == csm_array_read_u8(array)
             v == csm_array_read_u8(u.array)
         IN  IF ~u.ok THEN Res(CSM_ACSE_ERR, state, ber, u.array)
             ELSE IF ~v.ok THEN Res(CSM_ACSE_ERR, state, ber, v.array)
             ELSE Res(u.byte = 7 /\ v.byte = 128, state, ber, v.array)
    ELSE Res(CSM_ACSE_ERR, state, ber, array)

acse_app_context_decoder(state, ber, array) ==
    Res(ber.length = 9, state, ber, array)

\* acse_oid_decoder storing the id before it looks whether it knows it
acse_oid_decoder_storing_first(state, ber, array) ==
    LET Decoded(oid) ==
            IF oid.ok
            THEN IF oid.name = APP_CONTEXT_NAME
                 THEN Res(oid.id \in {LN_REF, SN_REF, LN_REF_WITH_CYPHERING,
                                      SN_REF_WITH_CYPHERING},
                          [state EXCEPT !.ref = oid.id], ber, oid.array)
                 ELSE IF oid.name = SECURITY_MECHANISM_NAME
                 THEN Res(oid.id \in {CSM_AUTH_LOW_LEVEL, CSM_AUTH_HIGH_LEVEL_GMAC},
                          [state EXCEPT !.auth_level = oid.id], ber, oid.array)
                 ELSE Res(CSM_ACSE_ERR, state, ber, oid.array)
            ELSE Res(CSM_ACSE_ERR, state, ber, oid.array)
    IN  Decoded(csm_ber_decode_object_identifier([header |-> cOidHeader, size |-> 5], array))

acse_oid_decoder(state, ber, array) ==
    LET Decoded(oid) ==
            IF oid.ok
            THEN IF oid.name = APP_CONTEXT_NAME
                 THEN IF oid.id \in {LN_REF, SN_REF, LN_REF_WITH_CYPHERING,
                                     SN_REF_WITH_CYPHERING}
                      THEN Res(CSM_ACSE_OK, [state EXCEPT !.ref = oid.id], ber, oid.array)
                      ELSE Res(CSM_ACSE_ERR, state, ber, oid.array)
                 ELSE IF oid.name = SECURITY_MECHANISM_NAME
                 THEN IF oid.id \in {CSM_AUTH_LOW_LEVEL, CSM_AUTH_HIGH_LEVEL_GMAC}
                      THEN Res(CSM_ACSE_OK, [state EXCEPT !.auth_level = oid.id], ber,
                               oid.array)
                      ELSE Res(CSM_ACSE_ERR, state, ber, oid.array)
                 ELSE Res(CSM_ACSE_ERR, state, ber, oid.array)
            ELSE Res(CSM_ACSE_ERR, state, ber, oid.array)
    IN  Decoded(csm_ber_decode_object_identifier([header |-> cOidHeader, size |-> 5], array))

acse_req_decoder(state, ber, array) ==
    IF ber.length = 2
    THEN LET u == csm_array_read_u8(array)
             v == csm_array_read_u8(u.array)
         IN  IF ~u.ok THEN Res(CSM_ACSE_ERR, state, ber, u.array)
             ELSE IF u.byte # 7 THEN Res(CSM_ACSE_ERR, state, ber, u.array)
             ELSE IF ~v.ok THEN Res(CSM_ACSE_ERR, state, ber, v.array)
             ELSE Res(v.byte = 128, state, ber, v.array)
    ELSE Res(CSM_ACSE_ERR, state, ber, array)

\* acse_auth_value_decoder testing the lower bound of the size only
acse_auth_value_decoder_without_upper_bound(state, ber, array) ==
    LET Value(d, b) ==
            IF b.ok
            THEN Res(CSM_ACSE_OK,
                     [state EXCEPT !.handshake.ctos =
                          [value |-> b.value, size |-> d.ber.length]],
                     d.ber, b.array)
            ELSE Res(CSM_ACSE_ERR, state, d.ber, b.array)
        Header(d) ==
            IF d.ok
            THEN IF /\ d.ber.length >= CSM_DEF_LLS_SIZE
                    /\ d.ber.tag = TAG_CONTEXT_SPECIFIC
                 THEN Value(d, csm_array_read_buff(d.array, d.ber.length))
                 ELSE Res(CSM_ACSE_ERR, state, d.ber, d.array)
            ELSE Res(CSM_ACSE_ERR, state, d.ber, d.array)
    IN  Header(csm_ber_decode(ber, array))

acse_auth_value_decoder(state, ber, array) ==
    LET Value(d, b) ==
            IF b.ok
            THEN Res(CSM_ACSE_OK,
                     [state EXCEPT !.handshake.ctos =
                          [value |-> b.value, size |-> d.ber.length]],
                     d.ber, b.array)
            ELSE Res(CSM_ACSE_ERR, state, d.ber, b.array)
        Header(d) ==
            IF d.ok
            THEN IF /\ d.ber.length >= CSM_DEF_LLS_SIZE
                    /\ d.ber.length <= CSM_DEF_CHALLENGE_SIZE
                    /\ d.ber.tag = TAG_CONTEXT_SPECIFIC
                 THEN Value(d, csm_array_read_buff(d.array, d.ber.length))
                 ELSE Res(CSM_ACSE_ERR, state, d.ber, d.array)
            ELSE Res(CSM_ACSE_ERR, state, d.ber, d.array)
    IN  Header(csm_ber_decode(ber, array))

\* the part of acse_user_info_decoder after the InitiateRequest tag was found
\* (lines 323-365): byte is the tag just read
acse_initiate_request_decoder(state, ber, array, byte) ==
    \* proposed_conformance is a uint32_t: the sum of three bytes shifted by
    \* 16, 8 and 0 bits is below 2^24 and never wraps
    LET Pdu(d, b3, c3, p) ==                                  \* client-max-receive-pdu-size
            Res(b3.valid /\ p.ok,
                [state EXCEPT !.handshake.proposed_conformance = c3,
                              !.handshake.client_max_receive_pdu_size =
                                  IF p.ok THEN p.value ELSE @],
                d.ber, p.array)
        Byte3(d, b3, c2) ==
            Pdu(d, b3, c2 + b3.byte,
                IF b3.valid THEN csm_array_read_u16(b3.array)
                ELSE [ok |-> FALSE, value |-> 0, array |-> b3.array])
        Byte2(d, b2, c1) == Byte3(d, AndReadU8(b2), c1 + b2.byte * 256)
        Unused(d, u) ==                                       \* unused bits in the bitstring
            Byte2(d, AndReadU8([valid |-> u.valid /\ u.byte = 0, byte |-> u.byte,
                                array |-> u.array]),
                  u.byte * 65536)
        Conformance(ver, d) ==
            IF d.ber.tag = 95 /\ d.ber.ext = 31
            THEN IF d.ber.length = 4
                 THEN Unused(d, AndReadU8([valid |-> ver.valid /\ ver.byte = 6 /\ d.ok,
                                           byte |-> ver.byte, array |-> d.array]))
                 ELSE Res(ver.valid /\ ver.byte = 6 /\ d.ok, state, d.ber, d.array)
            ELSE Res(CSM_ACSE_ERR, state, d.ber, d.array)
        Version(ver) ==                                       \* always 6
            Conformance(ver, IF ver.valid /\ ver.byte = 6 THEN csm_ber_decode(ber, ver.array)
                             ELSE [ok |-> FALSE, ber |-> ber, array |-> ver.array])
        Quality(kb, n1, n2) ==                                \* proposed-quality-of-service
            Version(AndReadU8([valid |-> n1.ok /\ n2.ok, byte |-> kb, array |-> n2.array]))
        Allowed(kb, n1) ==                                    \* response-allowed
            Quality(kb, n1, IF n1.ok THEN csm_axdr_rd_null(n1.array)
                            ELSE [ok |-> FALSE, array |-> n1.array])
        Key(k) ==                                             \* dedicated key marker
            Allowed(IF k.ok THEN k.byte ELSE byte, csm_axdr_rd_null(k.array))
    IN  Key(csm_array_read_u8(array))

acse_user_info_decoder(state, ber, array) ==
    LET Tag(d, t) ==
            IF ~t.ok THEN Res(CSM_ACSE_ERR, state, d.ber, t.array)
            ELSE IF t.byte # AXDR_INITIATE_REQUEST THEN Res(CSM_ACSE_ERR, state, d.ber, t.array)
            ELSE acse_initiate_request_decoder(state, d.ber, t.array, t.byte)
        Header(d) ==
            IF ~d.ok THEN Res(CSM_ACSE_ERR, state, d.ber, d.array)
            ELSE IF d.ber.id # BER_TYPE_OCTET_STRING
            THEN Res(CSM_ACSE_ERR, state, d.ber, d.array)
            ELSE Tag(d, csm_array_read_u8(d.array))
    IN  Header(csm_ber_decode(ber, array))

acse_client_system_title_decoder(state, ber, array) ==
    LET Title(d, b) ==
            IF b.ok
            THEN Res(CSM_ACSE_OK, [state EXCEPT !.client_app_title = b.value], d.ber, b.array)
            ELSE Res(CSM_ACSE_ERR, state, d.ber, b.array)
        Header(d) ==
            IF d.ok
            THEN IF d.ber.length = CSM_DEF_APP_TITLE_SIZE /\ d.ber.id = BER_TYPE_OCTET_STRING
                 THEN Title(d, csm_array_read_buff(d.array, CSM_DEF_APP_TITLE_SIZE))
                 ELSE Res(CSM_ACSE_ERR, state, d.ber, d.array)
            ELSE Res(CSM_ACSE_ERR, state, d.ber, d.array)
    IN  Header(csm_ber_decode(ber, array))

acse_skip_decoder(state, ber, array) ==
    IF ber.isPrimitive
    THEN Res(CSM_ACSE_OK, state, ber, csm_array_reader_jump(array, ber.length).array)
    ELSE Res(CSM_ACSE_OK, state, ber, array)

Codec(tag, context, extract_func, insert_func) ==
    [tag |-> tag, context |-> context, extract_func |-> extract_func,
     insert_func |-> insert_func]

aarq_codec_chain == <<
    Codec(CSM_ASSO_PROTO_VER,            ACSE_NONE, "acse_proto_version_decoder", "NULL"),
    Codec(CSM_ASSO_APP_CONTEXT_NAME,     ACSE_ANY,  "acse_app_context_decoder", "NULL"),
    Codec(BER_TYPE_OBJECT_IDENTIFIER,    ACSE_ANY,  "acse_oid_decoder", "NULL"),
    Codec(CSM_ASSO_CALLED_AP_TITLE,      ACSE_NONE, "acse_skip_decoder", "NULL"),
    Codec(CSM_ASSO_CALLED_AE_QUALIFIER,  ACSE_NONE, "acse_skip_decoder", "NULL"),
    Codec(CSM_ASSO_CALLED_AP_INVOC_ID,   ACSE_NONE, "acse_skip_decoder", "NULL"),
    Codec(BER_TYPE_INTEGER,              ACSE_NONE, "acse_skip_decoder", "NULL"),
    Codec(CSM_ASSO_CALLED_AE_INVOC_ID,   ACSE_NONE, "acse_skip_decoder", "NULL"),
    Codec(BER_TYPE_INTEGER,              ACSE_NONE, "acse_skip_decoder", "NULL"),
    Codec(CSM_ASSO_CALLING_AP_TITLE,     ACSE_OPT,  "acse_client_system_title_decoder", "NULL"),
    Codec(CSM_ASSO_CALLING_AE_QUALIFIER, ACSE_NONE, "acse_skip_decoder", "NULL"),
    Codec(CSM_ASSO_CALLING_AP_INVOC_ID,  ACSE_NONE, "acse_skip_decoder", "NULL"),
    Codec(BER_TYPE_INTEGER,              ACSE_NONE, "acse_skip_decoder", "NULL"),
    Codec(CSM_ASSO_CALLING_AE_INVOC_ID,  ACSE_NONE, "acse_skip_decoder", "NULL"),
    Codec(BER_TYPE_INTEGER,              ACSE_NONE, "acse_skip_decoder", "NULL"),
    Codec(CSM_ASSO_SENDER_ACSE_REQU,     ACSE_OPT,  "acse_req_decoder", "NULL"),
    Codec(CSM_ASSO_REQ_MECHANISM_NAME,   ACSE_OPT,  "acse_oid_decoder", "NULL"),
    Codec(CSM_ASSO_CALLING_AUTH_VALUE,   ACSE_OPT,  "acse_auth_value_decoder", "NULL"),
    Codec(CSM_ASSO_IMPLEMENTATION_INFO,  ACSE_OPT,  "acse_skip_decoder", "NULL"),
    Codec(CSM_ASSO_USER_INFORMATION,     ACSE_OPT,  "acse_user_info_decoder", "NULL") >>

CSM_ACSE_AARQ_CHAIN_SIZE == Len(aarq_codec_chain)

\* codec->extract_func(state, &ber, array)
extract_func(codec, state, ber, array) ==
    CASE codec.extract_func = "acse_proto_version_decoder" ->
             acse_proto_version_decoder(state, ber, array)
      [] codec.extract_func = "acse_app_context_decoder" ->
             acse_app_context_decoder(state, ber, array)
      [] codec.extract_func = "acse_oid_decoder" ->
             acse_oid_decoder(state, ber, array)
      [] codec.extract_func = "acse_req_decoder" ->
             acse_req_decoder(state, ber, array)
      [] codec.extract_func = "acse_auth_value_decoder" ->
             acse_auth_value_decoder(state, ber, array)
      [] codec.extract_func = "acse_user_info_decoder" ->
             acse_user_info_decoder(state, ber, array)
      [] codec.extract_func = "acse_client_system_title_decoder" ->
             acse_client_system_title_decoder(state, ber, array)
      [] codec.extract_func = "acse_skip_decoder" ->
             acse_skip_decoder(state, ber, array)

(***************************************************************************)
(* ENCODERS.  env is what the system services return during the call.      *)
(***************************************************************************)
\* valid = valid && csm_array_write_u8(array, byte): s = [valid, array]
AndWriteU8(s, byte) ==
    IF s.valid
    THEN LET w == csm_array_write_u8(s.array, byte) IN [valid |-> w.ok, array |-> w.array]
    ELSE s

AndWriteLen(s, len) ==
    IF s.valid
    THEN LET w == csm_ber_write_len(s.array, len) IN [valid |-> w.ok, array |-> w.array]
    ELSE s

AndWriteBuff(s, bytes) ==
    IF s.valid
    THEN LET w == csm_array_write_buff(s.array, bytes) IN [valid |-> w.ok, array |-> w.array]
    ELSE s

AndSet(s, index, byte) ==
    IF s.valid
    THEN LET w == csm_array_set(s.array, index, byte) IN [valid |-> w.ok, array |-> w.array]
    ELSE s

Start(array) == [valid |-> TRUE, array |-> array]

\* if (valid) ret = CSM_ACSE_OK
Valid(s, state, ber) == Res(s.valid, state, ber, s.array)

acse_proto_version_encoder(state, ber, array) ==
    Valid(AndWriteU8(AndWriteU8(AndWriteLen(Start(array), 2), 7), 128), state, ber)

acse_app_context_encoder(state, ber, array) ==
    Valid(AndWriteLen(Start(array), 9), state, ber)

acse_oid_encoder(array, name, id) ==
    AndWriteU8(AndWriteU8(AndWriteBuff(AndWriteLen(Start(array), 7), cOidHeader), name), id)

acse_oid_context_encoder(state, ber, array) ==
    Valid(acse_oid_encoder(array, APP_CONTEXT_NAME, state.ref), state, ber)

\* acse_result_encoder taking only CF_ASSOCIATED for an accepted association
acse_result_encoder_associated_only(state, ber, array) ==
    LET Written(w) == Res(w.ok, state, ber, w.array)
    IN  Written(csm_ber_write_integer(array, IF state.state_cf = CF_ASSOCIATED THEN 0 ELSE 1))

acse_result_encoder(state, ber, array) ==
    LET Written(w) == Res(w.ok, state, ber, w.array)
    IN  Written(csm_ber_write_integer(array, IF state.state_cf = CF_IDLE THEN 1 ELSE 0))

acse_result_src_diag_encoder(state, ber, array) ==
    LET Written(w) == Res(w.ok, state, ber, w.array)
        Tag(u) ==
            IF ~u.ok THEN Res(CSM_ACSE_ERR, state, ber, u.array)
            ELSE Written(csm_ber_write_integer(u.array, state.handshake.result))
        Length(l) ==
            IF ~l.ok THEN Res(CSM_ACSE_ERR, state, ber, l.array)
            ELSE Tag(csm_array_write_u8(l.array, CSM_ASSO_RESULT_SERVICE_USER))
    IN  Length(csm_ber_write_len(array, 5))

acse_resp_system_title_encoder(state, ber, array) ==
    Valid(AndWriteBuff(
              AndWriteU8(
                  AndWriteU8(AndWriteLen(Start(array), CSM_DEF_APP_TITLE_SIZE + 2),
                             BER_TYPE_OCTET_STRING),
                  CSM_DEF_APP_TITLE_SIZE),
              csm_sys_get_system_title),
          state, ber)

acse_responder_requirements_encoder(state, ber, array) ==
    Valid(AndWriteU8(AndWriteU8(AndWriteLen(Start(array), 2), 7), 128), state, ber)

acse_oid_mechanism_encoder(state, ber, array) ==
    Valid(acse_oid_encoder(array, SECURITY_MECHANISM_NAME, state.auth_level), state, ber)

\* the for loop of acse_responder_auth_value_encoder, from i on
RECURSIVE stoc_loop(_, _, _, _)
stoc_loop(s, i, size, env) ==
    IF i < size
    THEN LET n == AndWriteU8(s, csm_sys_get_random_u8(env, i))
         IN  IF n.valid THEN stoc_loop(n, i + 1, size, env) ELSE n
    ELSE s

acse_responder_auth_value_encoder(state, ber, array, env) ==
    LET size == state.handshake.ctos.size
    IN  Valid(stoc_loop(AndWriteU8(AndWriteU8(AndWriteLen(Start(array), size + 2),
                                              TAG_CONTEXT_SPECIFIC), size),
                        0, size, env),
              [state EXCEPT !.handshake.stoc =
                  [value |-> [i \in 1..size |-> csm_sys_get_random_u8(env, i - 1)],
                   size |-> size]],
              ber)

\* acse_user_info_encoder counting the tag of the octet string in its size
acse_user_info_encoder_counting_the_tag(state, ber, array) ==
    LET saved_index == array.wr_index
        conformance == state.config.conformance
        \* size - 1U and size - 3U are uint32_t, stored as a byte
        Sizes(s, size) ==
            Valid(AndSet(AndSet(s, saved_index, (size - 1) % 256),
                         saved_index + 2, (size - 2) % 256),
                  state, ber)
        Vaa(s) == Sizes(s, s.array.wr_index - saved_index)
        Pdu(s) ==
            Vaa(IF state.ref = LN_REF \/ state.ref = LN_REF_WITH_CYPHERING
                THEN AndWriteU8(AndWriteU8(s, 0), 7)
                ELSE AndWriteU8(AndWriteU8(s, 250), 0))
        Conformance(s) ==
            Pdu(AndWriteU8(AndWriteU8(
                    AndWriteU8(AndWriteU8(AndWriteU8(s, (conformance \div 65536) % 256),
                                          (conformance \div 256) % 256),
                               conformance % 256),
                    (CSM_DEF_PDU_SIZE \div 256) % 256),
                CSM_DEF_PDU_SIZE % 256))
        Response(s) ==
            Conformance(AndWriteU8(AndWriteU8(AndWriteU8(AndWriteU8(
                AndWriteU8(AndWriteU8(AndWriteU8(s, AXDR_INITIATE_RESPONSE), 0), 6),
                95), 31), 4), 0))
    IN  Response(AndWriteU8(AndWriteU8(AndWriteU8(Start(array), 0),
                                       BER_TYPE_OCTET_STRING), 0))

acse_user_info_encoder(state, ber, array) ==
    LET saved_index == array.wr_index
        conformance == state.config.conformance
        \* size - 1U and size - 3U are uint32_t, stored as a byte
        Sizes(s, size) ==
            Valid(AndSet(AndSet(s, saved_index, (size - 1) % 256),
                         saved_index + 2, (size - 3) % 256),
                  state, ber)
        Vaa(s) == Sizes(s, s.array.wr_index - saved_index)
        Pdu(s) ==
            Vaa(IF state.ref = LN_REF \/ state.ref = LN_REF_WITH_CYPHERING
                THEN AndWriteU8(AndWriteU8(s, 0), 7)
                ELSE AndWriteU8(AndWriteU8(s, 250), 0))
        Conformance(s) ==
            Pdu(AndWriteU8(AndWriteU8(
                    AndWriteU8(AndWriteU8(AndWriteU8(s, (conformance \div 65536) % 256),
                                          (conformance \div 256) % 256),
                               conformance % 256),
                    (CSM_DEF_PDU_SIZE \div 256) % 256),
                CSM_DEF_PDU_SIZE % 256))
        Response(s) ==
            Conformance(AndWriteU8(AndWriteU8(AndWriteU8(AndWriteU8(
                AndWriteU8(AndWriteU8(AndWriteU8(s, AXDR_INITIATE_RESPONSE), 0), 6),
                95), 31), 4), 0))
    IN  Response(AndWriteU8(AndWriteU8(AndWriteU8(Start(array), 0),
                                       BER_TYPE_OCTET_STRING), 0))

aare_codec_chain == <<
    Codec(CSM_ASSO_PROTO_VER,           ACSE_NONE, "NULL", "acse_proto_version_encoder"),
    Codec(CSM_ASSO_APP_CONTEXT_NAME,    ACSE_ANY,  "NULL", "acse_app_context_encoder"),
    Codec(BER_TYPE_OBJECT_IDENTIFIER,   ACSE_ANY,  "NULL", "acse_oid_context_encoder"),
    Codec(CSM_ASSO_RESULT_FIELD,        ACSE_ANY,  "NULL", "acse_result_encoder"),
    Codec(CSM_ASSO_RESULT_SRC_DIAG,     ACSE_ANY,  "NULL", "acse_result_src_diag_encoder"),
    Codec(CSM_ASSO_RESP_AP_TITLE,       ACSE_SEC,  "NULL", "acse_resp_system_title_encoder"),
    Codec(CSM_ASSO_RESPONDER_ACSE_REQ,  ACSE_SEC,  "NULL", "acse_responder_requirements_encoder"),
    Codec(CSM_ASSO_RESP_MECHANISM_NAME, ACSE_SEC,  "NULL", "acse_oid_mechanism_encoder"),
    Codec(CSM_ASSO_RESP_AUTH_VALUE,     ACSE_SEC,  "NULL", "acse_responder_auth_value_encoder"),
    Codec(CSM_ASSO_USER_INFORMATION,    ACSE_ANY,  "NULL", "acse_user_info_encoder") >>

CSM_ACSE_AARE_CHAIN_SIZE == Len(aare_codec_chain)

\* codec[i].insert_func(state, &ber, array)
insert_func(codec, state, ber, array, env) ==
    CASE codec.insert_func = "acse_proto_version_encoder" ->
             acse_proto_version_encoder(state, ber, array)
      [] codec.insert_func = "acse_app_context_encoder" ->
             acse_app_context_encoder(state, ber, array)
      [] codec.insert_func = "acse_oid_context_encoder" ->
             acse_oid_context_encoder(state, ber, array)
      [] codec.insert_func = "acse_result_encoder" ->
             acse_result_encoder(state, ber, array)
      [] codec.insert_func = "acse_result_src_diag_encoder" ->
             acse_result_src_diag_encoder(state, ber, array)
      [] codec.insert_func = "acse_resp_system_title_encoder" ->
             acse_resp_system_title_encoder(state, ber, array)
      [] codec.insert_func = "acse_responder_requirements_encoder" ->
             acse_responder_requirements_encoder(state, ber, array)
      [] codec.insert_func = "acse_oid_mechanism_encoder" ->
             acse_oid_mechanism_encoder(state, ber, array)
      [] codec.insert_func = "acse_responder_auth_value_encoder" ->
             acse_responder_auth_value_encoder(state, ber, array, env)
      [] codec.insert_func = "acse_user_info_encoder" ->
             acse_user_info_encoder(state, ber, array)

(***************************************************************************)
(* ASSOCIATION MAIN FUNCTIONS                                              *)
(***************************************************************************)
\* what csm_asso_init assigns; the other members keep their values
csm_asso_init(state) ==
    [state EXCEPT !.state_cf = CF_IDLE,
                  !.auth_level = CSM_AUTH_LOWEST_LEVEL,
                  !.ref = NO_REF,
                  !.handshake.result = CSM_ASSO_ERR_NULL]

\* csm_asso_is_granted without its branch for CSM_AUTH_LOWEST_LEVEL
csm_asso_is_granted_without_lowest(state) ==
    IF state.state_cf = CF_IDLE
    THEN IF state.auth_level = CSM_AUTH_LOW_LEVEL
         THEN IF csm_sys_test_lls_password(state.config.llc.dsap,
                                           state.handshake.ctos.value,
                                           state.handshake.ctos.size)
              THEN [ret |-> TRUE,
                    state |-> [state EXCEPT !.state_cf = CF_ASSOCIATED,
                                            !.handshake.result = CSM_ASSO_ERR_NULL]]
              ELSE [ret |-> FALSE,
                    state |-> [state EXCEPT !.handshake.result = CSM_ASSO_ERR_AUTH_FAILURE]]
         ELSE IF state.auth_level = CSM_AUTH_HIGH_LEVEL_GMAC
         THEN [ret |-> TRUE,
               state |-> [state EXCEPT !.state_cf = CF_ASSOCIATION_PENDING,
                                       !.handshake.result = CSM_ASSO_AUTH_REQUIRED]]
         ELSE [ret |-> FALSE,
               state |-> [state EXCEPT !.handshake.result = CSM_ASSO_AUTH_UNKNOWN]]
    ELSE [ret |-> FALSE, state |-> state]

csm_asso_is_granted(state) ==
    IF state.state_cf = CF_IDLE
    THEN IF state.auth_level = CSM_AUTH_LOWEST_LEVEL
         THEN [ret |-> TRUE,
               state |-> [state EXCEPT !.state_cf = CF_ASSOCIATED,
                                       !.handshake.result = CSM_ASSO_ERR_NULL]]
         ELSE IF state.auth_level = CSM_AUTH_LOW_LEVEL
         THEN IF csm_sys_test_lls_password(state.config.llc.dsap,
                                           state.handshake.ctos.value,
                                           state.handshake.ctos.size)
              THEN [ret |-> TRUE,
                    state |-> [state EXCEPT !.state_cf = CF_ASSOCIATED,
                                            !.handshake.result = CSM_ASSO_ERR_NULL]]
              ELSE [ret |-> FALSE,
                    state |-> [state EXCEPT !.handshake.result = CSM_ASSO_ERR_AUTH_FAILURE]]
         ELSE IF state.auth_level = CSM_AUTH_HIGH_LEVEL_GMAC
         THEN [ret |-> TRUE,
               state |-> [state EXCEPT !.state_cf = CF_ASSOCIATION_PENDING,
                                       !.handshake.result = CSM_ASSO_AUTH_REQUIRED]]
         ELSE [ret |-> FALSE,
               state |-> [state EXCEPT !.handshake.result = CSM_ASSO_AUTH_UNKNOWN]]
    ELSE [ret |-> FALSE, state |-> state]

\* the code of an extract_func with the failure of an optional field taken
\* for no failure
NormalError_forgiving_nothing(codec, ret) == ret

\* "normal error (optional field)": the code the loop goes on with after an
\* extract_func returned ret
NormalError(codec, ret) == IF codec.context = ACSE_OPT /\ ~ret THEN TRUE ELSE ret

\* history: what one call of an extract_func did, for the entry of the chain
\* at decoder_index l.decoder_index: the code it returned, where the cursor
\* stood when it was called and when it returned, and ref and auth_level
\* before and after it
Extract(l, f) ==
    [index |-> l.decoder_index, ret |-> f.ret, rd_index |-> l.array.rd_index,
     rd_after |-> f.array.rd_index,
     before |-> [ref |-> l.state.ref, auth_level |-> l.state.auth_level],
     after |-> [ref |-> f.state.ref, auth_level |-> f.state.auth_level]]

\* history: one pass of the do ... while that compared the tag of the header
\* in ber with the tag of the entry at l.decoder_index: the two tags met or
\* not, where the cursor stood before and after the pass, and the code the
\* pass ended with
Pass(l, matched, rd_after, ret) ==
    [index |-> l.decoder_index, tag |-> l.ber.tag, matched |-> matched,
     rd_index |-> l.array.rd_index, rd_after |-> rd_after, ret |-> ret]

\* the pass failing when the header in hand is not the one of an entry marked
\* ACSE_ANY
aarq_decode_pass_requiring_entries(l) ==
    LET codec == aarq_codec_chain[l.decoder_index + 1]
        index == l.decoder_index + 1
        Continue(f, d, t) ==
            [ret |-> d.ok, decoder_index |-> index, state |-> f.state,
             ber |-> d.ber, array |-> d.array, trace |-> t,
             passes |-> Append(l.passes, Pass(l, TRUE, d.array.rd_index, d.ok))]
        Extracted(f, ret, t) ==
            IF ret /\ index < CSM_ACSE_AARQ_CHAIN_SIZE
            THEN Continue(f, csm_ber_decode(f.ber, f.array), t)
            ELSE [ret |-> ret, decoder_index |-> index, state |-> f.state,
                  ber |-> f.ber, array |-> f.array, trace |-> t,
                  passes |-> Append(l.passes, Pass(l, TRUE, f.array.rd_index, ret))]
        Field(f) ==
            Extracted(f, NormalError(codec, f.ret),
                      Append(l.trace, Extract(l, f)))
    IN  IF l.ret
        THEN IF l.ber.tag = codec.tag
             THEN Field(extract_func(codec, l.state, l.ber, l.array))
             ELSE [l EXCEPT !.decoder_index = index,
                            !.ret = codec.context # ACSE_ANY,
                            !.passes = Append(@, Pass(l, FALSE, l.array.rd_index,
                                                      codec.context # ACSE_ANY))]
        ELSE l

\* One pass of the body of the do ... while of csm_asso_decoder:
\* l = [ret, decoder_index, state, ber, array], and trace, the history of the
\* extract_func calls so far, and passes, the history of the passes that
\* compared a tag.
aarq_decode_pass(l) ==
    LET codec == aarq_codec_chain[l.decoder_index + 1]
        index == l.decoder_index + 1
        Continue(f, d, t) ==
            [ret |-> d.ok, decoder_index |-> index, state |-> f.state,
             ber |-> d.ber, array |-> d.array, trace |-> t,
             passes |-> Append(l.passes, Pass(l, TRUE, d.array.rd_index, d.ok))]
        Extracted(f, ret, t) ==
            IF ret /\ index < CSM_ACSE_AARQ_CHAIN_SIZE
            THEN Continue(f, csm_ber_decode(f.ber, f.array), t)
            ELSE [ret |-> ret, decoder_index |-> index, state |-> f.state,
                  ber |-> f.ber, array |-> f.array, trace |-> t,
                  passes |-> Append(l.passes, Pass(l, TRUE, f.array.rd_index, ret))]
        Field(f) ==
            Extracted(f, NormalError(codec, f.ret),
                      Append(l.trace, Extract(l, f)))
    IN  IF l.ret
        THEN IF l.ber.tag = codec.tag
             THEN Field(extract_func(codec, l.state, l.ber, l.array))
             ELSE [l EXCEPT !.decoder_index = index,
                            !.passes = Append(@, Pass(l, FALSE, l.array.rd_index, TRUE))]
        ELSE l

\* the loop going through the chain a second time when the packet has bytes
\* left at the end of the chain
RECURSIVE aarq_decode_loop_going_round(_)
aarq_decode_loop_going_round(l) ==
    LET While(after) ==
            IF ~after.ret THEN after
            ELSE IF after.decoder_index < CSM_ACSE_AARQ_CHAIN_SIZE
            THEN aarq_decode_loop_going_round(after)
            ELSE IF /\ Len(after.passes) <= CSM_ACSE_AARQ_CHAIN_SIZE
                    /\ csm_array_unread(after.array) > 0
            THEN aarq_decode_loop_going_round(
                     [after EXCEPT !.decoder_index = 0])
            ELSE after
    IN  While(aarq_decode_pass(l))

\* The do ... while of csm_asso_decoder: one pass and, while ret holds and
\* decoder_index is below CSM_ACSE_AARQ_CHAIN_SIZE, the passes after it.
RECURSIVE aarq_decode_loop(_)
aarq_decode_loop(l) ==
    LET While(after) ==
            IF ~after.ret THEN after
            ELSE IF after.decoder_index < CSM_ACSE_AARQ_CHAIN_SIZE THEN aarq_decode_loop(after)
            ELSE after
    IN  While(aarq_decode_pass(l))

\* The header the decoder declares without initialising it.  It holds what
\* the stack held: ext keeps it until a long tag is read, and tag and length
\* keep it when csm_ber_decode runs out of bytes before it stores them (a
\* packet of no byte or of one).  With length 0 and the tag of an AARQ such
\* a packet passes the test of the outer header, with any other tag it does
\* not; every later read of the cursor fails in both cases.
StackBer(env) ==
    [tag |-> IF env.stack = 0 THEN 0 ELSE CSM_ASSO_AARQ, id |-> 0, isPrimitive |-> TRUE,
     ext |-> env.stack, length |-> 0]

\* csm_asso_decoder refusing a packet only when both its tag and its
\* length are wrong
csm_asso_decoder_refusing_both(state, array, env) ==
    LET Done(l) == [ret |-> l.ret, state |-> l.state, array |-> l.array,
                    trace |-> l.trace, passes |-> l.passes]
        Main(d) == Done(aarq_decode_loop([ret |-> d.ok, decoder_index |-> 0,
                                          state |-> state, ber |-> d.ber,
                                          array |-> d.array, trace |-> <<>>, passes |-> <<>>]))
        First(h) ==
            IF h.ber.length # csm_array_unread(h.array) /\ h.ber.tag # CSM_ASSO_AARQ
            THEN [ret |-> FALSE, state |-> state, array |-> h.array, trace |-> <<>>, passes |-> <<>>]
            ELSE Main(csm_ber_decode(h.ber, h.array))
    IN  First(csm_ber_decode(StackBer(env), array))

csm_asso_decoder(state, array, env) ==
    LET Done(l) == [ret |-> l.ret, state |-> l.state, array |-> l.array,
                    trace |-> l.trace, passes |-> l.passes]
        Main(d) == Done(aarq_decode_loop([ret |-> d.ok, decoder_index |-> 0,
                                          state |-> state, ber |-> d.ber,
                                          array |-> d.array, trace |-> <<>>, passes |-> <<>>]))
        First(h) ==
            IF h.ber.length # csm_array_unread(h.array) \/ h.ber.tag # CSM_ASSO_AARQ
            THEN [ret |-> FALSE, state |-> state, array |-> h.array, trace |-> <<>>, passes |-> <<>>]
            ELSE Main(csm_ber_decode(h.ber, h.array))
    IN  First(csm_ber_decode(StackBer(env), array))

\* The for loop of csm_asso_encoder from entry i on; returns the i it ends with.
RECURSIVE aare_encode_loop(_, _, _, _)
aare_encode_loop(i, state, array, env) ==
    IF i < CSM_ACSE_AARE_CHAIN_SIZE
    THEN LET codec == aare_codec_chain[i + 1]
             Inserted(f) ==
                 IF ~f.ret THEN [i |-> i, state |-> f.state, array |-> f.array]
                 ELSE aare_encode_loop(i + 1, f.state, f.array, env)
             Tag(t) ==
                 IF t.ok THEN Inserted(insert_func(codec, state, StackBer(env), t.array, env))
                 ELSE aare_encode_loop(i + 1, state, t.array, env)
         IN  IF codec.insert_func # "NULL" /\ codec.context # ACSE_NONE
             THEN IF state.auth_level # CSM_AUTH_HIGH_LEVEL_GMAC /\ codec.context = ACSE_SEC
                  THEN aare_encode_loop(i + 1, state, array, env)
                  ELSE Tag(csm_array_write_u8(array, codec.tag))
             ELSE aare_encode_loop(i + 1, state, array, env)
    ELSE [i |-> i, state |-> state, array |-> array]

\* csm_asso_encoder counting the length byte itself in the length
csm_asso_encoder_length_off_by_one(state, array, env) ==
    LET Chain(l) ==
            IF l.i >= CSM_ACSE_AARE_CHAIN_SIZE
            THEN [ret |-> TRUE, state |-> l.state,
                  array |-> csm_array_set(l.array, 1, (l.array.wr_index - 1) % 256).array]
            ELSE [ret |-> FALSE, state |-> l.state, array |-> l.array]
        Size(w2) ==
            IF ~w2.ok THEN [ret |-> FALSE, state |-> state, array |-> w2.array]
            ELSE Chain(aare_encode_loop(0, state, w2.array, env))
        Tag(w1) ==
            IF ~w1.ok THEN [ret |-> FALSE, state |-> state, array |-> w1.array]
            ELSE Size(csm_array_write_u8(w1.array, 0))
    IN  Tag(csm_array_write_u8([array EXCEPT !.wr_index = 0], CSM_ASSO_AARE))

csm_asso_encoder(state, array, env) ==
    LET Chain(l) ==
            IF l.i >= CSM_ACSE_AARE_CHAIN_SIZE
            THEN [ret |-> TRUE, state |-> l.state,
                  array |-> csm_array_set(l.array, 1, (l.array.wr_index - 2) % 256).array]
            ELSE [ret |-> FALSE, state |-> l.state, array |-> l.array]
        Size(w2) ==
            IF ~w2.ok THEN [ret |-> FALSE, state |-> state, array |-> w2.array]
            ELSE Chain(aare_encode_loop(0, state, w2.array, env))
        Tag(w1) ==
            IF ~w1.ok THEN [ret |-> FALSE, state |-> state, array |-> w1.array]
            ELSE Size(csm_array_write_u8(w1.array, 0))
    IN  Tag(csm_array_write_u8([array EXCEPT !.wr_index = 0], CSM_ASSO_AARE))

\* rlre answering with the tag of the request
rlre_with_request_tag == <<CSM_ASSO_RLRQ, 3, 128, 1, 0>>

\* static uint8_t rlre[] = { CSM_ASSO_RLRE, 3U, 0x80U, 0x01U, 0x00U }
rlre == <<CSM_ASSO_RLRE, 3, 128, 1, 0>>

\* execute_idle asking csm_asso_is_granted before it tests what the decoder
\* returned
execute_idle_granting_first(asso, pkt, env) ==
    LET Encoded(d, e) ==
            [bytes_to_reply |-> IF e.ret THEN e.array.wr_index ELSE 0,
             asso |-> e.state, packet |-> e.array,
             decoder |-> "ok", encoder |-> IF e.ret THEN "ok" ELSE "failed",
             trace |-> d.trace, passes |-> d.passes]
        Granted(d, g) ==
            IF d.ret THEN Encoded(d, csm_asso_encoder(g.state, d.array, env))
            ELSE [bytes_to_reply |-> 0, asso |-> g.state, packet |-> d.array,
                  decoder |-> "failed", encoder |-> "none", trace |-> d.trace, passes |-> d.passes]
        Decoded(d) == Granted(d, csm_asso_is_granted(d.state))
    IN  Decoded(csm_asso_decoder(asso, pkt, env))

\* csm_asso_execute returns bytes_to_reply with the association and the packet
\* as the call leaves them; decoder and encoder record what csm_asso_decoder
\* and csm_asso_encoder returned ("ok", "failed", or "none" when they did not
\* run), trace the extract_func calls of the decoder and passes the passes of
\* its loop.
\* the branch of csm_asso_execute for an association that is CF_IDLE
execute_idle(asso, pkt, env) ==
    LET Encoded(d, e) ==
            [bytes_to_reply |-> IF e.ret THEN e.array.wr_index ELSE 0,
             asso |-> e.state, packet |-> e.array,
             decoder |-> "ok", encoder |-> IF e.ret THEN "ok" ELSE "failed",
             trace |-> d.trace, passes |-> d.passes]
        Granted(d, g) == Encoded(d, csm_asso_encoder(g.state, d.array, env))
        Decoded(d) ==
            IF d.ret THEN Granted(d, csm_asso_is_granted(d.state))
            ELSE [bytes_to_reply |-> 0, asso |-> d.state, packet |-> d.array,
                  decoder |-> "failed", encoder |-> "none", trace |-> d.trace, passes |-> d.passes]
    IN  Decoded(csm_asso_decoder(asso, pkt, env))

\* execute_associated taking every packet for a release request
execute_associated_any_tag(asso, pkt) ==
    LET Release(b) ==
            IF b.ok
            THEN [bytes_to_reply |-> 5,
                  asso |-> [asso EXCEPT !.state_cf = CF_IDLE],
                  packet |-> csm_array_write_buff([pkt EXCEPT !.wr_index = 0], rlre).array,
                  decoder |-> "none", encoder |-> "none", trace |-> <<>>, passes |-> <<>>]
            ELSE [bytes_to_reply |-> 0, asso |-> asso, packet |-> pkt,
                  decoder |-> "none", encoder |-> "none", trace |-> <<>>, passes |-> <<>>]
    IN  Release(csm_array_get(pkt, 0))

\* the branch of csm_asso_execute for an association that is CF_ASSOCIATED
execute_associated(asso, pkt) ==
    LET Release(b) ==
            IF b.ok /\ b.byte = CSM_ASSO_RLRQ
            THEN [bytes_to_reply |-> 5,
                  asso |-> [asso EXCEPT !.state_cf = CF_IDLE],
                  packet |-> csm_array_write_buff([pkt EXCEPT !.wr_index = 0], rlre).array,
                  decoder |-> "none", encoder |-> "none", trace |-> <<>>, passes |-> <<>>]
            ELSE [bytes_to_reply |-> 0, asso |-> asso, packet |-> pkt,
                  decoder |-> "none", encoder |-> "none", trace |-> <<>>, passes |-> <<>>]
    IN  Release(csm_array_get(pkt, 0))

\* csm_asso_execute taking every association that is not CF_IDLE for an
\* associated one
csm_asso_execute_pending_as_associated(asso, pkt, env) ==
    IF asso.state_cf = CF_IDLE THEN execute_idle(asso, pkt, env)
    ELSE execute_associated(asso, pkt)

csm_asso_execute(asso, pkt, env) ==
    IF asso.state_cf = CF_IDLE THEN execute_idle(asso, pkt, env)
    ELSE IF asso.state_cf = CF_ASSOCIATED THEN execute_associated(asso, pkt)
    ELSE [bytes_to_reply |-> 0, asso |-> asso, packet |-> pkt,
          decoder |-> "none", encoder |-> "none", trace |-> <<>>, passes |-> <<>>]

(***************************************************************************)
(* The packets the association is given.  An AARQ is described by what     *)
(* each of its fields holds; AarqBytes lays the fields out in the order of *)
(* the AARQ grammar.                                                       *)
(***************************************************************************)
\* the longest buffer the transport hands over
BufSize == 256

ClientTitle == <<67, 76, 73, 0, 0, 0, 0, 2>>
\* proposed conformance 0x007E1F, client-max-receive-pdu-size 0x04B0
ProposedConformance == <<0, 126, 31>>
ClientMaxPdu == <<4, 176>>

BerLen(n) == IF n < 128 THEN <<n>> ELSE <<129, n>>

Oid(name, id) == <<BER_TYPE_OBJECT_IDENTIFIER, 7>> \o cOidHeader \o <<name, id>>

VerField(ver) ==
    CASE ver = "absent" -> <<>>
      [] ver = "version1" -> <<CSM_ASSO_PROTO_VER, 2, 7, 128>>
      [] ver = "version2" -> <<CSM_ASSO_PROTO_VER, 2, 6, 64>>

AppField(app) ==
    CASE app = "absent" -> <<>>
      [] app = "LN" -> <<CSM_ASSO_APP_CONTEXT_NAME, 9>> \o Oid(APP_CONTEXT_NAME, LN_REF)
      [] app = "SN" -> <<CSM_ASSO_APP_CONTEXT_NAME, 9>> \o Oid(APP_CONTEXT_NAME, SN_REF)
      [] app = "unknown" -> <<CSM_ASSO_APP_CONTEXT_NAME, 9>> \o Oid(APP_CONTEXT_NAME, 9)
      [] app = "selector" -> <<CSM_ASSO_APP_CONTEXT_NAME, 9>> \o Oid(3, LN_REF)
      [] app = "mechanism" -> <<CSM_ASSO_APP_CONTEXT_NAME, 9>>
                                 \o Oid(SECURITY_MECHANISM_NAME, CSM_AUTH_HIGH_LEVEL_GMAC)
      [] app = "prefix" -> <<CSM_ASSO_APP_CONTEXT_NAME, 9, BER_TYPE_OBJECT_IDENTIFIER, 7,
                             96, 133, 116, 5, 9, APP_CONTEXT_NAME, LN_REF>>
      [] app = "short" -> <<CSM_ASSO_APP_CONTEXT_NAME, 8, BER_TYPE_OBJECT_IDENTIFIER, 6>>
                             \o cOidHeader \o <<APP_CONTEXT_NAME>>
      [] app = "long" -> <<CSM_ASSO_APP_CONTEXT_NAME, 10, BER_TYPE_OBJECT_IDENTIFIER, 8>>
                            \o cOidHeader \o <<APP_CONTEXT_NAME, LN_REF, 0>>

TitleField(title) ==
    CASE title = "absent" -> <<>>
      [] title = "title" -> <<CSM_ASSO_CALLING_AP_TITLE, 10, BER_TYPE_OCTET_STRING, 8>>
                               \o ClientTitle
      [] title = "short" -> <<CSM_ASSO_CALLING_AP_TITLE, 4, BER_TYPE_OCTET_STRING, 2, 67, 76>>

ReqField(req) ==
    CASE req = "absent" -> <<>>
      [] req = "auth" -> <<CSM_ASSO_SENDER_ACSE_REQU, 2, 7, 128>>
      [] req = "none" -> <<CSM_ASSO_SENDER_ACSE_REQU, 2, 7, 0>>

\* the last arc of the mechanism name a request's mech stands for
MechId(mech) ==
    CASE mech = "lowest" -> CSM_AUTH_LOWEST_LEVEL
      [] mech = "low" -> CSM_AUTH_LOW_LEVEL
      [] mech = "high" -> 2
      [] mech = "gmac" -> CSM_AUTH_HIGH_LEVEL_GMAC
      [] mech = "other" -> 9

\* "context": a mechanism-name that carries the name of an application context
MechField(mech) ==
    IF mech = "absent" THEN <<>>
    ELSE IF mech = "context"
    THEN <<CSM_ASSO_REQ_MECHANISM_NAME, 7>> \o cOidHeader \o <<APP_CONTEXT_NAME, SN_REF>>
    ELSE <<CSM_ASSO_REQ_MECHANISM_NAME, 7>> \o cOidHeader
             \o <<SECURITY_MECHANISM_NAME, MechId(mech)>>

\* the calling authentication value a request's auth stands for
AuthValue(auth, dsap) ==
    CASE auth = "password" -> LlsPassword(dsap)
      [] auth = "wrong" -> [LlsPassword(dsap) EXCEPT ![8] = (@ + 1) % 256]
      [] auth = "short" -> SubSeq(LlsPassword(dsap), 1, CSM_DEF_LLS_SIZE - 1)
      [] auth = "long" -> LlsPassword(dsap) \o <<0>>
      [] auth = "challenge" -> <<75, 53, 54, 105, 86, 97, 103, 89>>
      [] auth = "max" -> [i \in 1..CSM_DEF_CHALLENGE_SIZE |-> 32 + i]
      [] auth = "oversize" -> [i \in 1..(CSM_DEF_CHALLENGE_SIZE + 1) |-> 32 + i]

AuthField(auth, dsap) ==
    LET Field(v) ==
            <<CSM_ASSO_CALLING_AUTH_VALUE, Len(v) + 2, TAG_CONTEXT_SPECIFIC, Len(v)>> \o v
    IN  IF auth = "absent" THEN <<>> ELSE Field(AuthValue(auth, dsap))

ImplField(impl) ==
    CASE impl = "absent" -> <<>>
      [] impl = "info" -> <<CSM_ASSO_IMPLEMENTATION_INFO, 2, 73, 49>>

\* the user-information field: an InitiateRequest, or one of its deviations
InitiateRequest(ui, block) ==
    CASE ui = "valid" -> <<AXDR_INITIATE_REQUEST, 0, 0, 0, 6>> \o block \o ClientMaxPdu
      [] ui = "discriminator" -> <<AXDR_INITIATE_RESPONSE, 0, 0, 0, 6>> \o block \o ClientMaxPdu
      [] ui = "version" -> <<AXDR_INITIATE_REQUEST, 0, 0, 0, 5>> \o block \o ClientMaxPdu
      [] ui = "tag" -> <<AXDR_INITIATE_REQUEST, 0, 0, 0, 6, 95, 30>> \o Tail(Tail(block))
                          \o ClientMaxPdu
      [] ui = "length" -> <<AXDR_INITIATE_REQUEST, 0, 0, 0, 6, 95, 31, 3, 0>>
                             \o SubSeq(block, 5, 6) \o ClientMaxPdu
      [] ui = "unused" -> <<AXDR_INITIATE_REQUEST, 0, 0, 0, 6, 95, 31, 4, 1>>
                             \o SubSeq(block, 5, 7) \o ClientMaxPdu
      [] ui = "truncated" -> <<AXDR_INITIATE_REQUEST, 0, 0, 0, 6>> \o SubSeq(block, 1, 5)

ConformanceBlock(bits) == <<95, 31, 4, 0>> \o bits

UiField(ui, block) ==
    LET Field(apdu) ==
            <<CSM_ASSO_USER_INFORMATION, Len(apdu) + 2, BER_TYPE_OCTET_STRING, Len(apdu)>>
                \o apdu
    IN  IF ui = "absent" THEN <<>> ELSE Field(InitiateRequest(ui, block))

AarqFields(r, dsap) ==
    VerField(r.ver) \o AppField(r.app) \o TitleField(r.title) \o ReqField(r.req)
        \o MechField(r.mech) \o AuthField(r.auth, dsap) \o ImplField(r.impl)
        \o UiField(r.ui, r.block)

AarqBytes(r, dsap) ==
    LET Apdu(body) == <<CSM_ASSO_AARQ>> \o BerLen(Len(body)) \o body
    IN  Apdu(AarqFields(r, dsap))

Aarq(ver, app, title, req, mech, auth, impl, ui) ==
    [kind |-> "AARQ", ver |-> ver, app |-> app, title |-> title, req |-> req, mech |-> mech,
     auth |-> auth, impl |-> impl, ui |-> ui, block |-> ConformanceBlock(ProposedConformance),
     raw |-> <<>>]

Raw(kind, bytes) ==
    [kind |-> kind, ver |-> "absent", app |-> "absent", title |-> "absent", req |-> "absent",
     mech |-> "absent", auth |-> "absent", impl |-> "absent", ui |-> "absent",
     block |-> <<>>, raw |-> bytes]

RequestBytes(r, dsap) == IF r.kind = "AARQ" THEN AarqBytes(r, dsap) ELSE r.raw

\* the AARQs of a client that follows the grammar, for each way of authenticating
Security ==
    { <<"absent", "absent", "absent">>,
      <<"auth", "low", "password">>,
      <<"auth", "low", "wrong">>,
      <<"auth", "low", "short">>,
      <<"auth", "low", "long">>,
      <<"auth", "low", "absent">>,
      <<"auth", "gmac", "challenge">>,
      <<"auth", "gmac", "max">>,
      <<"auth", "gmac", "oversize">>,
      <<"auth", "high", "challenge">>,
      <<"auth", "other", "password">>,
      <<"auth", "lowest", "absent">> }

UiKinds == {"valid", "absent", "discriminator", "version", "tag", "length", "unused",
            "truncated"}

Requests ==
    { Aarq("absent", "LN", "absent", s[1], s[2], s[3], "absent", "valid") : s \in Security }
    \cup { Aarq("absent", "LN", "absent", "absent", "absent", "absent", "absent", ui) :
              ui \in UiKinds }
    \cup { Aarq("absent", app, "absent", "absent", "absent", "absent", "absent", "valid") :
              app \in {"SN", "absent", "unknown", "selector", "prefix", "short", "long"} }
    \cup { Aarq(ver, "LN", "absent", "absent", "absent", "absent", "absent", "valid") :
              ver \in {"version1", "version2"} }
    \cup { Aarq("absent", "LN", title, req, "absent", "absent", impl, "valid") :
              title \in {"title", "short"}, req \in {"none"}, impl \in {"info"} }
    \cup { Aarq("absent", "LN", "absent", "auth", "gmac", "challenge", "absent", "absent"),
           Aarq("absent", "LN", "absent", "none", "absent", "absent", "absent", "absent"),
           Aarq("absent", "LN", "absent", "auth", "context", "absent", "absent", "valid"),
           Aarq("absent", "mechanism", "absent", "auth", "low", "password", "absent",
                "valid") }
    \cup { Raw("RLRQ", <<CSM_ASSO_RLRQ, 0>>),
           Raw("RLRQ", <<CSM_ASSO_RLRQ, 3, 128, 1, 0>>),
           Raw("empty", <<>>),
           Raw("AARE", <<CSM_ASSO_AARE, 0>>),
           Raw("unknown field", <<CSM_ASSO_AARQ, 2, 0, 0>>),
           Raw("bad length", <<CSM_ASSO_AARQ, 14>> \o AppField("LN")),
           Raw("bad length", <<CSM_ASSO_AARQ, 28>> \o AppField("LN")
                                 \o UiField("valid", ConformanceBlock(ProposedConformance))),
           Raw("bad tag", <<CSM_ASSO_AARE, 29>> \o AppField("LN")
                              \o UiField("valid", ConformanceBlock(ProposedConformance))),
           Raw("truncated", <<CSM_ASSO_AARQ, 9>> \o SubSeq(AppField("LN"), 1, 9)),
           Raw("no field", <<CSM_ASSO_AARQ, 0>>),
           Raw("out of order", <<CSM_ASSO_AARQ, 42>> \o AppField("LN") \o MechField("low")
                                   \o ReqField("auth")
                                   \o UiField("valid", ConformanceBlock(ProposedConformance))),
           Raw("no length", <<CSM_ASSO_AARQ>>) }

\* what the system services may return during one call: the random source's
\* bytes, and what the stack holds where the decoder declares its header
MaxSeed == 0
Envs == [seed : 0..MaxSeed, stack : {0, 31}]

(***************************************************************************)
(* The state machine: one association, driven by its session layer, which  *)
(* hands each received packet to csm_asso_execute, sends the reply, and    *)
(* may restart the association with csm_asso_init between two packets.     *)
(***************************************************************************)
\* the number of packets of one run
MaxCalls == 3

Asso ==
    [state_cf |-> state_cf, auth_level |-> auth_level, ref |-> ref,
     client_app_title |-> client_app_title, handshake |-> handshake, config |-> config]

NoRequest == Raw("none", <<>>)

\* a buffer of size bytes that holds a received packet
PacketOfSize(bytes, size) ==
    [buff |-> bytes, size |-> size, rd_index |-> 0, wr_index |-> Len(bytes)]

Packet(bytes) == PacketOfSize(bytes, BufSize)

\* between two calls: asso is the association as the last call left it
Idle == [op |-> "idle", asso |-> Asso, request |-> NoRequest,
         decoder |-> "none", encoder |-> "none", trace |-> <<>>, passes |-> <<>>]

\* the conformance the server is configured to offer
Configs == { [conformance |-> 32285, llc |-> [dsap |-> 1]] }

\* an association that is used before csm_asso_init has run on it: auth_level
\* holds what the memory held
InitWith_without_csm_asso_init(configs) ==
    /\ state_cf = CF_IDLE
    /\ auth_level = 2
    /\ ref = NO_REF
    /\ client_app_title = [i \in 1..CSM_DEF_APP_TITLE_SIZE |-> 0]
    /\ handshake = [ctos |-> [value |-> <<>>, size |-> 0],
                    stoc |-> [value |-> <<>>, size |-> 0],
                    proposed_conformance |-> 0,
                    client_max_receive_pdu_size |-> 0,
                    result |-> CSM_ASSO_ERR_NULL]
    /\ config \in configs
    /\ packet = Packet(<<>>)
    /\ bytes_to_reply = 0
    /\ call = Idle
    /\ ncalls = 0

InitWith(configs) ==
    /\ state_cf = CF_IDLE
    /\ auth_level = CSM_AUTH_LOWEST_LEVEL
    /\ ref = NO_REF
    /\ client_app_title = [i \in 1..CSM_DEF_APP_TITLE_SIZE |-> 0]
    /\ handshake = [ctos |-> [value |-> <<>>, size |-> 0],
                    stoc |-> [value |-> <<>>, size |-> 0],
                    proposed_conformance |-> 0,
                    client_max_receive_pdu_size |-> 0,
                    result |-> CSM_ASSO_ERR_NULL]
    /\ config \in configs
    /\ packet = Packet(<<>>)
    /\ bytes_to_reply = 0
    /\ call = Idle
    /\ ncalls = 0

Init == InitWith(Configs)

\* the session layer restarts the association
InitCall ==
    LET Returned(s) ==
            /\ state_cf' = s.state_cf
            /\ auth_level' = s.auth_level
            /\ ref' = s.ref
            /\ client_app_title' = s.client_app_title
            /\ handshake' = s.handshake
            /\ call' = [call EXCEPT !.asso = s]
    IN  /\ call.op = "idle"
        /\ Returned(csm_asso_init(Asso))
        /\ UNCHANGED <<config, packet, bytes_to_reply, ncalls>>

\* the session layer hands one packet to csm_asso_execute
ExecuteCall(requests) ==
    LET Returned(r, x) ==
            /\ state_cf' = x.asso.state_cf
            /\ auth_level' = x.asso.auth_level
            /\ ref' = x.asso.ref
            /\ client_app_title' = x.asso.client_app_title
            /\ handshake' = x.asso.handshake
            /\ packet' = x.packet
            /\ bytes_to_reply' = x.bytes_to_reply
            /\ call' = [op |-> "csm_asso_execute", asso |-> Asso, request |-> r,
                        decoder |-> x.decoder, encoder |-> x.encoder, trace |-> x.trace,
                        passes |-> x.passes]
    IN  /\ call.op = "idle"
        /\ ncalls < MaxCalls
        /\ \E r \in requests, env \in Envs :
              Returned(r, csm_asso_execute(Asso, Packet(RequestBytes(r, config.llc.dsap)),
                                           env))
        /\ ncalls' = ncalls + 1
        /\ UNCHANGED config

Execute == ExecuteCall(Requests)

\* the session layer hands over one packet in a buffer that has room for it
\* and for no more than max bytes
ExecuteIn(requests, max) ==
    LET Returned(r, x) ==
            /\ state_cf' = x.asso.state_cf
            /\ auth_level' = x.asso.auth_level
            /\ ref' = x.asso.ref
            /\ client_app_title' = x.asso.client_app_title
            /\ handshake' = x.asso.handshake
            /\ packet' = x.packet
            /\ bytes_to_reply' = x.bytes_to_reply
            /\ call' = [op |-> "csm_asso_execute", asso |-> Asso, request |-> r,
                        decoder |-> x.decoder, encoder |-> x.encoder, trace |-> x.trace,
                        passes |-> x.passes]
        Received(r, bytes) ==
            \E size \in Len(bytes)..max, env \in Envs :
                Returned(r, csm_asso_execute(Asso, PacketOfSize(bytes, size), env))
    IN  /\ call.op = "idle"
        /\ ncalls < MaxCalls
        /\ \E r \in requests : Received(r, RequestBytes(r, config.llc.dsap))
        /\ ncalls' = ncalls + 1
        /\ UNCHANGED config

\* the session layer sends the bytes_to_reply first bytes of the packet
SendReply ==
    /\ call.op = "csm_asso_execute"
    /\ packet' = Packet(<<>>)
    /\ bytes_to_reply' = 0
    /\ call' = Idle
    /\ UNCHANGED <<state_cf, auth_level, ref, client_app_title, handshake, config, ncalls>>

Next == InitCall \/ Execute \/ SendReply

Spec == Init /\ [][Next]_vars

(***************************************************************************)
(* The conformance block on its own: acse_user_info_encoder writes the     *)
(* block of the configured conformance, and acse_user_info_decoder is      *)
(* given a user-information field whose InitiateRequest holds that block.  *)
(***************************************************************************)
\* the values of each of the three bytes of a conformance
ConformanceBytes == {0, 1, 126, 255}

Conformances == { a * 65536 + b * 256 + c : a, b, c \in ConformanceBytes }

ConformanceConfigs == { [conformance |-> c, llc |-> [dsap |-> 1]] : c \in Conformances }

InitConformance == InitWith(ConformanceConfigs)

\* the 7 bytes of the conformance block in what acse_user_info_encoder wrote
\* from the start of the packet: 5F 1F 04 00 and the three bytes
EncodedBlock(array) == SubSeq(array.buff, 7, 13)

EncodeConformance ==
    LET Encoded(r) ==
            /\ packet' = r.array
            /\ call' = [call EXCEPT !.op = "acse_user_info_encoder",
                                    !.encoder = IF r.ret THEN "ok" ELSE "failed"]
    IN  /\ call.op = "idle"
        /\ \E env \in Envs : Encoded(acse_user_info_encoder(Asso, StackBer(env), Packet(<<>>)))
        /\ UNCHANGED <<state_cf, auth_level, ref, client_app_title, handshake, config,
                       bytes_to_reply, ncalls>>

DecodeConformance ==
    LET Field(apdu) == <<BER_TYPE_OCTET_STRING, Len(apdu)>> \o apdu
        Decoded(r) ==
            /\ state_cf' = r.state.state_cf
            /\ auth_level' = r.state.auth_level
            /\ ref' = r.state.ref
            /\ client_app_title' = r.state.client_app_title
            /\ handshake' = r.state.handshake
            /\ packet' = r.array
            /\ call' = [call EXCEPT !.op = "acse_user_info_decoder",
                                    !.decoder = IF r.ret THEN "ok" ELSE "failed"]
    IN  /\ call.op = "acse_user_info_encoder"
        /\ call.encoder = "ok"
        /\ \E env \in Envs :
              Decoded(acse_user_info_decoder(
                          Asso, StackBer(env),
                          Packet(Field(InitiateRequest("valid", EncodedBlock(packet))))))
        /\ UNCHANGED <<config, bytes_to_reply, ncalls>>

NextConformance == EncodeConformance \/ DecodeConformance

SpecConformance == InitConformance /\ [][NextConformance]_vars

(***************************************************************************)
(* What the properties read of a finished call.                            *)
(***************************************************************************)
\* csm_asso_execute has returned and its reply is not sent yet
Returned == call.op = "csm_asso_execute"

\* the call was given an association that was CF_IDLE
FromIdle == Returned /\ call.asso.state_cf = CF_IDLE

\* the call was given an association that was CF_ASSOCIATED
FromAssociated == Returned /\ call.asso.state_cf = CF_ASSOCIATED

\* the bytes of the packet the call was given
Received == RequestBytes(call.request, config.llc.dsap)

\* the bytes the call asks the session layer to send
Reply == SubSeq(packet.buff, 1, bytes_to_reply)

\* the contents of the first field of bytes, from index pos on, whose tag is tag
RECURSIVE Field(_, _, _)
Field(bytes, pos, tag) ==
    IF pos + 1 > Len(bytes) THEN <<>>
    ELSE IF bytes[pos] = tag
    THEN SubSeq(bytes, pos + 2, pos + 1 + bytes[pos + 1])
    ELSE Field(bytes, pos + 2 + bytes[pos + 1], tag)

\* the last byte of a field's contents, -1 when the field is not there
LastByte(contents) == IF contents = <<>> THEN -1 ELSE contents[Len(contents)]

\* the association-result of the AARE in the reply: [2] { INTEGER }
AssociationResult == LastByte(Field(Reply, 3, CSM_ASSO_RESULT_FIELD))

\* its result-source-diagnostic: [3] { [1] { INTEGER } }
Diagnostic == LastByte(Field(Reply, 3, CSM_ASSO_RESULT_SRC_DIAG))

\* the association is as the call was given it
Untouched == Asso = call.asso

(***************************************************************************)
(* C1.  A call on an association in CF_IDLE whose AARQ decodes and leaves  *)
(* auth_level at CSM_AUTH_LOWEST_LEVEL makes the association               *)
(* CF_ASSOCIATED with result CSM_ASSO_ERR_NULL, and the AARE it returns    *)
(* carries the association-result 0.                                       *)
(***************************************************************************)
C1_LowestLevelIsGranted ==
    FromIdle /\ call.decoder = "ok" /\ auth_level = CSM_AUTH_LOWEST_LEVEL
        => /\ state_cf = CF_ASSOCIATED
           /\ handshake.result = CSM_ASSO_ERR_NULL
           /\ (call.encoder = "ok" => AssociationResult = 0)

C1_Witness ==
    /\ FromIdle /\ call.decoder = "ok" /\ auth_level = CSM_AUTH_LOWEST_LEVEL
    /\ call.request.kind = "AARQ" /\ call.request.mech = "absent"
    /\ state_cf = CF_ASSOCIATED
    /\ bytes_to_reply > 0 /\ AssociationResult = 0

(***************************************************************************)
(* C2.  An AARQ processed from CF_IDLE that selects low-level security is  *)
(* granted (CF_ASSOCIATED, result CSM_ASSO_ERR_NULL, association-result 0) *)
(* when the challenge it presents is the password of the access point, and *)
(* for every other challenge, of the same length or not, the association   *)
(* stays CF_IDLE with result CSM_ASSO_ERR_AUTH_FAILURE and                 *)
(* association-result 1.                                                   *)
(***************************************************************************)
C2_LowLevelComparesThePresentedChallenge ==
    (/\ FromIdle /\ call.decoder = "ok"
     /\ call.request.kind = "AARQ" /\ call.request.mech = "low"
     /\ call.request.auth \in {"password", "wrong", "short", "long"})
        => IF AuthValue(call.request.auth, config.llc.dsap) = LlsPassword(config.llc.dsap)
           THEN /\ state_cf = CF_ASSOCIATED
                /\ handshake.result = CSM_ASSO_ERR_NULL
                /\ AssociationResult = 0
           ELSE /\ state_cf = CF_IDLE
                /\ handshake.result = CSM_ASSO_ERR_AUTH_FAILURE
                /\ AssociationResult = 1

(***************************************************************************)
(* C3.  A call on an association in CF_IDLE whose AARQ decodes with        *)
(* auth_level CSM_AUTH_HIGH_LEVEL_GMAC makes the association               *)
(* CF_ASSOCIATION_PENDING, and the AARE it returns carries the             *)
(* association-result 0 and the diagnostic CSM_ASSO_AUTH_REQUIRED.         *)
(***************************************************************************)
C3_GmacIsPending ==
    FromIdle /\ call.decoder = "ok" /\ auth_level = CSM_AUTH_HIGH_LEVEL_GMAC
        => /\ state_cf = CF_ASSOCIATION_PENDING
           /\ handshake.result = CSM_ASSO_AUTH_REQUIRED
           /\ (call.encoder = "ok"
                  => AssociationResult = 0 /\ Diagnostic = CSM_ASSO_AUTH_REQUIRED)

C3_Witness ==
    /\ FromIdle /\ call.decoder = "ok" /\ auth_level = CSM_AUTH_HIGH_LEVEL_GMAC
    /\ call.request.kind = "AARQ" /\ call.request.mech = "gmac"
    /\ state_cf = CF_ASSOCIATION_PENDING
    /\ bytes_to_reply > 0 /\ AssociationResult = 0 /\ Diagnostic = CSM_ASSO_AUTH_REQUIRED

(***************************************************************************)
(* C4.  An AARQ processed from CF_IDLE whose mechanism-name names a level  *)
(* that is not supported or not recognised is decoded to its end and       *)
(* answered with a rejecting AARE: the association stays CF_IDLE with      *)
(* result CSM_ASSO_AUTH_UNKNOWN and association-result 1, and is never     *)
(* CF_ASSOCIATED.                                                          *)
(***************************************************************************)
C4_UnknownMechanismIsRejected ==
    (/\ FromIdle
     /\ call.request.kind = "AARQ" /\ call.request.mech \in {"high", "other"})
        => /\ call.decoder = "ok"
           /\ state_cf = CF_IDLE
           /\ handshake.result = CSM_ASSO_AUTH_UNKNOWN
           /\ AssociationResult = 1

(***************************************************************************)
(* C5.  A call on an association in CF_ASSOCIATED with a packet whose      *)
(* first byte is the release-request tag 0x62 returns 5, leaves the bytes  *)
(* 63 03 80 01 00 as the reply and makes the association CF_IDLE.          *)
(***************************************************************************)
C5_ReleaseRequestIsAnswered ==
    FromAssociated /\ Received # <<>> /\ Head(Received) = 98
        => /\ bytes_to_reply = 5
           /\ Reply = <<99, 3, 128, 1, 0>>
           /\ state_cf = CF_IDLE

C5_Witness ==
    /\ FromAssociated /\ Received # <<>> /\ Head(Received) = 98
    /\ bytes_to_reply = 5 /\ state_cf = CF_IDLE

(***************************************************************************)
(* C6.  A call on an association in CF_ASSOCIATED with a packet whose      *)
(* first byte is not 0x62 (an AARQ, for one) returns 0 and leaves the      *)
(* association as it was: state_cf, ref, auth_level and handshake keep     *)
(* their values.                                                           *)
(***************************************************************************)
C6_OtherPacketsChangeNothing ==
    FromAssociated /\ Received # <<>> /\ Head(Received) # 98
        => /\ bytes_to_reply = 0
           /\ state_cf = CF_ASSOCIATED
           /\ Untouched

C6_Witness ==
    /\ FromAssociated /\ Received # <<>> /\ Head(Received) = CSM_ASSO_AARQ
    /\ call.request.mech = "gmac"
    /\ bytes_to_reply = 0 /\ state_cf = CF_ASSOCIATED

(***************************************************************************)
(* C7.  state_cf changes only along CF_IDLE -> CF_ASSOCIATED,              *)
(* CF_IDLE -> CF_ASSOCIATION_PENDING, CF_ASSOCIATED -> CF_IDLE and         *)
(* CF_ASSOCIATION_PENDING -> CF_IDLE, never between CF_ASSOCIATED and      *)
(* CF_ASSOCIATION_PENDING, and it becomes CF_ASSOCIATED or                 *)
(* CF_ASSOCIATION_PENDING only in a call whose AARQ decoded.               *)
(***************************************************************************)
Edges ==
    { <<CF_IDLE, CF_ASSOCIATED>>, <<CF_IDLE, CF_ASSOCIATION_PENDING>>,
      <<CF_ASSOCIATED, CF_IDLE>>, <<CF_ASSOCIATION_PENDING, CF_IDLE>> }

C7_Step ==
    state_cf' # state_cf
        => /\ <<state_cf, state_cf'>> \in Edges
           /\ state_cf' \in {CF_ASSOCIATED, CF_ASSOCIATION_PENDING}
                => call'.op = "csm_asso_execute" /\ call'.decoder = "ok"

C7_StateChangesAlongTheEdges == [][C7_Step]_vars

C7_Witness ==
    /\ FromAssociated /\ state_cf = CF_IDLE
    /\ ncalls = MaxCalls

(***************************************************************************)
(* C8.  An AARQ whose user-information is there but is not laid out as an  *)
(* InitiateRequest (the discriminator, the version, the tag of the         *)
(* conformance, its length or its unused-bits byte is wrong, or the field  *)
(* is cut short) fails to decode: the call returns 0, writes no AARE and   *)
(* leaves the association CF_IDLE.                                         *)
(***************************************************************************)
C8_DeviatingUserInformationFailsTheDecode ==
    (/\ FromIdle
     /\ call.request.kind = "AARQ"
     /\ call.request.ui \in {"discriminator", "version", "tag", "length", "unused",
                             "truncated"})
        => /\ call.decoder = "failed"
           /\ bytes_to_reply = 0
           /\ state_cf = CF_IDLE

(***************************************************************************)
(* C9.  The conformance block round trip: for the conformance c of the     *)
(* configuration, the block acse_user_info_encoder writes (5F 1F, length   *)
(* 4, unused bits 0, the three bytes of c), given to                       *)
(* acse_user_info_decoder, leaves handshake.proposed_conformance = c.      *)
(***************************************************************************)
C9_ConformanceRoundTrip ==
    call.op = "acse_user_info_decoder" /\ call.decoder = "ok"
        => handshake.proposed_conformance = config.conformance

(***************************************************************************)
(* C10.  In every AARE that csm_asso_encoder reports as encoded, the byte  *)
(* at offset 1 is the number of bytes written after it, wr_index - 2.      *)
(***************************************************************************)
C10_LengthByteCountsTheBytesAfterIt ==
    FromIdle /\ call.encoder = "ok"
        => /\ packet.buff[1] = CSM_ASSO_AARE
           /\ packet.buff[2] = packet.wr_index - 2

C10_Witness ==
    /\ FromIdle /\ call.encoder = "ok"
    /\ auth_level = CSM_AUTH_HIGH_LEVEL_GMAC
    /\ handshake.ctos.size = CSM_DEF_CHALLENGE_SIZE
    /\ packet.buff[2] = packet.wr_index - 2

(***************************************************************************)
(* C11.  Every AARE that csm_asso_encoder reports as encoded has a body    *)
(* shorter than 128 bytes, also for CSM_AUTH_HIGH_LEVEL_GMAC with a client *)
(* challenge of CSM_DEF_CHALLENGE_SIZE bytes, so that the byte at offset   *)
(* 1, wr_index - 2 cut to 8 bits, is a short-form BER length.              *)
(***************************************************************************)
C11_AareBodyIsShorterThan128 ==
    FromIdle /\ call.encoder = "ok"
        => /\ packet.wr_index - 2 < 128
           /\ packet.buff[2] < 128

(***************************************************************************)
(* AARQs that follow the grammar and leave out any of the optional fields  *)
(* calling-AP-title, sender-acse-requirements, mechanism-name,             *)
(* calling-authentication-value and implementation-information.            *)
(***************************************************************************)
OptionalRequests ==
    { Aarq("absent", "LN", title, req, mech, auth, impl, "valid") :
          title \in {"absent", "title"}, req \in {"absent", "auth"},
          mech \in {"absent", "low", "gmac"}, auth \in {"absent", "password"},
          impl \in {"absent", "info"} }

ExecuteOptional == ExecuteCall(OptionalRequests)

NextOptional == InitCall \/ ExecuteOptional \/ SendReply

SpecOptional == Init /\ [][NextOptional]_vars

\* the fields of an AARQ in the order of the grammar, each with the
\* decoder_index of its entry of aarq_codec_chain; the object identifier
\* inside the application-context-name has the entry after it
FieldsOf(r, dsap) ==
    << [index |-> 0, bytes |-> VerField(r.ver)],
       [index |-> 1, bytes |-> AppField(r.app)],
       [index |-> 9, bytes |-> TitleField(r.title)],
       [index |-> 15, bytes |-> ReqField(r.req)],
       [index |-> 16, bytes |-> MechField(r.mech)],
       [index |-> 17, bytes |-> AuthField(r.auth, dsap)],
       [index |-> 18, bytes |-> ImplField(r.impl)],
       [index |-> 19, bytes |-> UiField(r.ui, r.block)] >>

\* the extract_func calls a decoder in step with the fields makes, from the
\* field at position k on, pos being the offset of that field in the packet:
\* for each field that is there, its entry and the offset of its contents
RECURSIVE InStep(_, _, _)
InStep(fields, k, pos) ==
    IF k > Len(fields) THEN <<>>
    ELSE IF fields[k].bytes = <<>> THEN InStep(fields, k + 1, pos)
    ELSE IF fields[k].index = 1
    THEN << [index |-> 1, rd_index |-> pos + 2], [index |-> 2, rd_index |-> pos + 4] >>
             \o InStep(fields, k + 1, pos + Len(fields[k].bytes))
    ELSE << [index |-> fields[k].index, rd_index |-> pos + 2] >>
             \o InStep(fields, k + 1, pos + Len(fields[k].bytes))

\* the extract_func calls of the last call: entry, cursor and returned code
Extracts == [i \in 1..Len(call.trace) |->
                [index |-> call.trace[i].index, rd_index |-> call.trace[i].rd_index]]

(***************************************************************************)
(* C12.  An AARQ that follows the grammar and leaves out any of the        *)
(* optional fields is decoded in step: each field that is there is decoded *)
(* by the extract_func of its own entry, at its own contents, and returns  *)
(* CSM_ACSE_OK, acse_user_info_decoder is reached and run, the decoder     *)
(* returns TRUE and an AARE is returned.                                   *)
(***************************************************************************)
C12_OmittedOptionalFieldsKeepTheChainInStep ==
    (FromIdle /\ call.request \in OptionalRequests)
        => /\ call.decoder = "ok"
           /\ Extracts = InStep(FieldsOf(call.request, config.llc.dsap), 1, 2)
           /\ \A i \in 1..Len(call.trace) : call.trace[i].ret
           /\ \E i \in 1..Len(call.trace) : call.trace[i].index = 19
           /\ call.encoder = "ok"
           /\ bytes_to_reply > 2
           /\ Reply[1] = CSM_ASSO_AARE
           /\ Reply[2] = bytes_to_reply - 2

\* the extract_func of the entry of aarq_codec_chain an extract_func call ran
Extractor(e) == aarq_codec_chain[e.index + 1].extract_func

(***************************************************************************)
(* C13.  Whenever acse_oid_decoder returns CSM_ACSE_ERR (the prefix does   *)
(* not match, the identifier is cut short, the name is neither of the two  *)
(* names, or the id is not recognised), and whenever                       *)
(* acse_app_context_decoder refuses the size of the identifier, ref and    *)
(* auth_level have the values they had before the decoder ran; when it is  *)
(* the application-context-name that fails, the call leaves them as it     *)
(* found them.                                                             *)
(***************************************************************************)
C13_FailedObjectIdentifierAssignsNothing ==
    FromIdle
        => \A i \in 1..Len(call.trace) :
              ( /\ Extractor(call.trace[i]) \in {"acse_oid_decoder", "acse_app_context_decoder"}
                /\ ~call.trace[i].ret )
                 => /\ call.trace[i].after = call.trace[i].before
                    /\ call.trace[i].index \in {1, 2}
                          => /\ call.decoder = "failed"
                             /\ ref = call.asso.ref
                             /\ auth_level = call.asso.auth_level

C13_Witness ==
    /\ FromIdle
    /\ call.request.kind = "AARQ" /\ call.request.app = "unknown"
    /\ \E i \in 1..Len(call.trace) :
          /\ Extractor(call.trace[i]) = "acse_oid_decoder"
          /\ ~call.trace[i].ret
          /\ call.trace[i].before.ref = LN_REF
    /\ ref = LN_REF

\* the extract_func calls of the last call that changed ref, and auth_level
RefWrites == { i \in 1..Len(call.trace) : call.trace[i].after.ref # call.trace[i].before.ref }

AuthLevelWrites ==
    { i \in 1..Len(call.trace) :
         call.trace[i].after.auth_level # call.trace[i].before.auth_level }

(***************************************************************************)
(* C14.  In the decode of one AARQ ref is assigned at most once and only   *)
(* by the identifier of the application-context-name (entries 1 and 2 of   *)
(* aarq_codec_chain), and auth_level at most once and only by the          *)
(* mechanism-name (entry 16): no AARQ has either written twice or written  *)
(* from the other field.                                                   *)
(***************************************************************************)
C14_RefAndAuthLevelAreWrittenOnceByTheirField ==
    FromIdle
        => /\ Cardinality(RefWrites) <= 1
           /\ Cardinality(AuthLevelWrites) <= 1
           /\ \A i \in RefWrites : call.trace[i].index = 2
           /\ \A i \in AuthLevelWrites : call.trace[i].index = 16

OuterHeaderIsRefused(bytes) ==
    \/ Len(bytes) < 2
    \/ bytes[1] # 96
    \/ bytes[2] < 128 /\ bytes[2] # Len(bytes) - 2
    \/ bytes[2] = 129 /\ (Len(bytes) < 3 \/ bytes[3] # Len(bytes) - 3)

(***************************************************************************)
(* C16.  A call on an association in CF_IDLE with a packet whose outer tag *)
(* is not 0x60, or whose declared outer length is not the number of bytes  *)
(* left in the cursor, returns 0, writes no AARE (the packet keeps the     *)
(* bytes it came with), leaves the association CF_IDLE and runs no field   *)
(* decoder: ref, auth_level and handshake are as the call found them.      *)
(***************************************************************************)
C16_RefusedOuterHeaderChangesNothing ==
    FromIdle /\ OuterHeaderIsRefused(Received)
        => /\ bytes_to_reply = 0
           /\ call.decoder = "failed"
           /\ call.encoder = "none"
           /\ call.trace = <<>>
           /\ state_cf = CF_IDLE
           /\ Untouched
           /\ packet.buff = Received
           /\ packet.wr_index = Len(Received)

C16_Witness ==
    /\ FromIdle /\ OuterHeaderIsRefused(Received)
    /\ call.request.kind = "bad tag"
    /\ call.asso.ref = LN_REF
    /\ bytes_to_reply = 0 /\ ref = LN_REF

(***************************************************************************)
(* C17.  Once state_cf is CF_ASSOCIATION_PENDING, every csm_asso_execute   *)
(* call, whatever the packet, returns 0, writes no reply (the packet keeps *)
(* its bytes) and leaves the whole association as it was; state_cf leaves  *)
(* CF_ASSOCIATION_PENDING only by csm_asso_init, which makes it CF_IDLE.   *)
(***************************************************************************)
C17_Step ==
    state_cf = CF_ASSOCIATION_PENDING
        => /\ call'.op = "csm_asso_execute" /\ call.op = "idle"
                 => /\ bytes_to_reply' = 0
                    /\ Asso' = Asso
                    /\ call'.decoder = "none" /\ call'.encoder = "none"
                    /\ packet'.buff = RequestBytes(call'.request, config.llc.dsap)
                    /\ packet'.wr_index = Len(packet'.buff)
           /\ state_cf' # CF_ASSOCIATION_PENDING
                 => /\ call.op = "idle" /\ call'.op = "idle"
                    /\ Asso' = csm_asso_init(Asso)
                    /\ UNCHANGED <<packet, bytes_to_reply, ncalls>>

C17_PendingIsLeftByInitOnly == [][C17_Step]_vars

C17_Witness ==
    /\ Returned /\ call.asso.state_cf = CF_ASSOCIATION_PENDING
    /\ call.request.kind = "RLRQ"
    /\ bytes_to_reply = 0
    /\ state_cf = CF_ASSOCIATION_PENDING

\* the index in bytes of the tag byte of the first field, from index pos on,
\* whose tag is tag; 0 when there is none
RECURSIVE FieldPos(_, _, _)
FieldPos(bytes, pos, tag) ==
    IF pos + 1 > Len(bytes) THEN 0
    ELSE IF bytes[pos] = tag THEN pos
    ELSE FieldPos(bytes, pos + 2 + bytes[pos + 1], tag)

\* the index in the reply of the tag of the user-information of the AARE: the
\* byte after it is the first size byte acse_user_info_encoder reserves
UserInformation == FieldPos(Reply, 3, CSM_ASSO_USER_INFORMATION)

(***************************************************************************)
(* C18.  Whenever acse_user_info_encoder has run with success, with T the  *)
(* number of bytes from the first size byte it reserved to the end of the  *)
(* field (the field is the last of the AARE), the first size byte holds    *)
(* T - 1 and the size byte of the octet string, two bytes later, holds     *)
(* T - 3: each is the number of bytes that follow it.                      *)
(***************************************************************************)
C18_InitiateResponseSizes ==
    FromIdle /\ call.encoder = "ok" /\ UserInformation > 0
        => /\ Reply[UserInformation + 1] = (Len(Reply) - UserInformation) - 1
           /\ Reply[UserInformation + 2] = BER_TYPE_OCTET_STRING
           /\ Reply[UserInformation + 3] = (Len(Reply) - UserInformation) - 3
           /\ Reply[UserInformation + 4] = AXDR_INITIATE_RESPONSE

C18_Witness ==
    /\ FromIdle /\ call.encoder = "ok" /\ UserInformation > 0
    /\ auth_level = CSM_AUTH_HIGH_LEVEL_GMAC /\ ref = LN_REF
    /\ Len(Reply) - UserInformation = 17
    /\ Reply[UserInformation + 1] = 16
    /\ Reply[UserInformation + 3] = 14

(***************************************************************************)
(* Packets in buffers that have room for the AARQ and not always for the   *)
(* AARE that answers it.                                                   *)
(***************************************************************************)
\* the largest buffer
MaxCapacity == 80

CapacityRequests ==
    { Aarq("absent", "LN", "absent", "absent", "absent", "absent", "absent", "valid"),
      Aarq("absent", "LN", "absent", "auth", "gmac", "challenge", "absent", "valid"),
      Aarq("absent", "LN", "absent", "auth", "gmac", "absent", "absent", "valid") }

ExecuteCapacity == ExecuteIn(CapacityRequests, MaxCapacity)

NextCapacity == InitCall \/ ExecuteCapacity \/ SendReply

SpecCapacity == Init /\ [][NextCapacity]_vars

\* the tags of the fields of bytes from index pos on, one after the other;
\* -1 stands for a field that is cut short
RECURSIVE Tags(_, _)
Tags(bytes, pos) ==
    IF pos > Len(bytes) THEN <<>>
    ELSE IF pos + 1 > Len(bytes) THEN <<-1>>
    ELSE IF pos + 1 + bytes[pos + 1] > Len(bytes) THEN <<bytes[pos], -1>>
    ELSE <<bytes[pos]>> \o Tags(bytes, pos + 2 + bytes[pos + 1])

\* the entries of aare_codec_chain the encoder is to emit for the
\* association it is given, and the tags of the fields they make: the
\* object identifier is inside the application-context-name
Emitted ==
    SelectSeq(aare_codec_chain,
              LAMBDA codec : /\ codec.insert_func # "NULL"
                             /\ codec.context # ACSE_NONE
                             /\ codec.context = ACSE_SEC
                                   => auth_level = CSM_AUTH_HIGH_LEVEL_GMAC)

EmittedFields == SelectSeq(Emitted, LAMBDA codec : codec.tag # BER_TYPE_OBJECT_IDENTIFIER)

EmittedTags == [i \in 1..Len(EmittedFields) |-> EmittedFields[i].tag]

(***************************************************************************)
(* C19.  When a write into the packet fails while the AARE is encoded (the *)
(* tag of an entry or a byte of its contents, the buffer being full),      *)
(* csm_asso_encoder returns FALSE and csm_asso_execute returns 0: an AARE  *)
(* the encoder reports as encoded holds every entry that was to be         *)
(* emitted, whole.                                                         *)
(***************************************************************************)
C19_FailedWriteFailsTheEncoder ==
    FromIdle /\ call.decoder = "ok"
        => /\ call.encoder = "failed" => bytes_to_reply = 0
           /\ call.encoder = "ok"
                 => /\ bytes_to_reply = packet.wr_index
                    /\ Tags(Reply, 3) = EmittedTags

\* the tags of the entries of aare_codec_chain with the given requirement
TagsOf(context) ==
    { aare_codec_chain[i].tag : i \in { j \in 1..CSM_ACSE_AARE_CHAIN_SIZE :
                                           aare_codec_chain[j].context = context } }

\* the place of the entry with the given tag in aare_codec_chain
PlaceOf(tag) == CHOOSE i \in 1..CSM_ACSE_AARE_CHAIN_SIZE : aare_codec_chain[i].tag = tag

\* the fields of the AARE in the packet
AareFields == Tags(Reply, 3)

(***************************************************************************)
(* C20.  In every AARE that is produced the four fields of the entries     *)
(* marked ACSE_SEC (responding AP title, responder ACSE requirements,      *)
(* mechanism name, responding authentication value) are all there when     *)
(* auth_level is CSM_AUTH_HIGH_LEVEL_GMAC and none of them otherwise; the  *)
(* fields are entries of the table, in the order of the table; and the     *)
(* entry marked ACSE_NONE (protocol version) is not among them.            *)
(***************************************************************************)
C20_SecurityFieldsAllOrNoneInTableOrder ==
    FromIdle /\ call.encoder = "ok"
        => /\ \A i \in 1..Len(AareFields) :
                  \E j \in 1..CSM_ACSE_AARE_CHAIN_SIZE : aare_codec_chain[j].tag = AareFields[i]
           /\ \A tag \in TagsOf(ACSE_SEC) :
                  (\E i \in 1..Len(AareFields) : AareFields[i] = tag)
                      <=> auth_level = CSM_AUTH_HIGH_LEVEL_GMAC
           /\ \A i, j \in 1..Len(AareFields) :
                  i < j => PlaceOf(AareFields[i]) < PlaceOf(AareFields[j])
           /\ \A i \in 1..Len(AareFields) : AareFields[i] \notin TagsOf(ACSE_NONE)

\* the passes of the decode loop in which the tag of the header in hand was
\* not the tag of the entry
Mismatches == { i \in 1..Len(call.passes) : ~call.passes[i].matched }

\* the entries marked ACSE_ANY, that a request always has
Required == { i \in 1..CSM_ACSE_AARQ_CHAIN_SIZE : aarq_codec_chain[i].context = ACSE_ANY }

(***************************************************************************)
(* C21.  In the decode loop of the AARQ a pass whose header does not carry *)
(* the tag of the entry reads no byte and runs no extract_func; the next   *)
(* pass compares the same header, at the same cursor, with the next entry. *)
(* This holds for the entries marked ACSE_ANY as for the others: when the  *)
(* header meets none of the entries left, the loop ends at the end of the  *)
(* chain and csm_asso_decoder returns TRUE.                                *)
(***************************************************************************)
C21_MismatchReadsNothingAndMovesOn ==
    FromIdle
        => \A i \in Mismatches :
              /\ call.passes[i].rd_after = call.passes[i].rd_index
              /\ \A j \in 1..Len(call.trace) : call.trace[j].index # call.passes[i].index
              /\ i < Len(call.passes)
                    => /\ call.passes[i + 1].index = call.passes[i].index + 1
                       /\ call.passes[i + 1].tag = call.passes[i].tag
                       /\ call.passes[i + 1].rd_index = call.passes[i].rd_index
              /\ i = Len(call.passes)
                    => /\ call.passes[i].index = CSM_ACSE_AARQ_CHAIN_SIZE - 1
                       /\ call.decoder = "ok"

\* a header that is not the application-context-name is compared with every
\* entry from the first to the last, the entries marked ACSE_ANY among them,
\* and the decoder returns TRUE
C21_Witness ==
    /\ FromIdle
    /\ call.decoder = "ok"
    /\ Len(call.passes) = CSM_ACSE_AARQ_CHAIN_SIZE
    /\ Mismatches = 1..Len(call.passes)
    /\ \A i \in Required : ~call.passes[i].matched

\* the place of the user-information in aarq_codec_chain, counted from 0
UserInformationEntry ==
    CHOOSE i \in 0..(CSM_ACSE_AARQ_CHAIN_SIZE - 1) :
        aarq_codec_chain[i + 1].tag = CSM_ASSO_USER_INFORMATION

\* acse_user_info_decoder was called and returned CSM_ACSE_OK
UserInfoDecoded ==
    \E j \in 1..Len(call.trace) :
        call.trace[j].index = UserInformationEntry /\ call.trace[j].ret

\* the number of bytes of the received packet up to the length byte of the
\* user-information field: where the cursor stood when the decoder was called
UserInfoAt ==
    call.trace[CHOOSE j \in 1..Len(call.trace) :
                   call.trace[j].index = UserInformationEntry].rd_index

\* where the cursor stood after the pass of the user-information
UserInfoEnd ==
    call.passes[CHOOSE i \in 1..Len(call.passes) :
                    call.passes[i].index = UserInformationEntry].rd_after

\* the index in the received packet of the first of the three bytes of
\* conformance.  The InitiateRequest from the cursor on: 04 len 01 00 00 00 06
\* 5F 1F 04, then the unused-bits byte, three bytes of conformance, two bytes
\* of client-max-receive-pdu-size
ConformanceAt == UserInfoAt + 12

(***************************************************************************)
(* C23.  After acse_user_info_decoder has returned CSM_ACSE_OK,            *)
(* handshake.client_max_receive_pdu_size is the big-endian value of the    *)
(* two bytes that follow the three bytes of conformance, and the decoder   *)
(* has read the four bytes of the conformance contents and those two: the  *)
(* cursor is at the end of the field.                                      *)
(***************************************************************************)
C23_PduSizeIsTheTwoBytesAfterConformance ==
    FromIdle /\ UserInfoDecoded /\ call.request.ui = "valid"
        => /\ handshake.client_max_receive_pdu_size
                  = Received[ConformanceAt + 3] * 256 + Received[ConformanceAt + 4]
           /\ UserInfoEnd = ConformanceAt + 4
           /\ UserInfoEnd = UserInfoAt + Received[UserInfoAt]

\* the entry of aarq_codec_chain an extract_func call was made for
Entry(e) == aarq_codec_chain[e.index + 1]

\* the pass of the decode loop in which the extract_func call e was made
PassOf(e) == call.passes[CHOOSE i \in 1..Len(call.passes) : call.passes[i].index = e.index]

\* the header that csm_ber_decode reads in the received packet with the
\* cursor at rd_index
HeaderAt(rd_index) ==
    csm_ber_decode([tag |-> 0, id |-> 0, isPrimitive |-> TRUE, ext |-> 0, length |-> 0],
                   [Packet(Received) EXCEPT !.rd_index = rd_index])

\* the extract_func calls that returned CSM_ACSE_ERR
Failures == { j \in 1..Len(call.trace) : ~call.trace[j].ret }

(***************************************************************************)
(* C22.  When the tag of an entry matches and its extract_func fails, the  *)
(* failure ends the decoding with FALSE if and only if the entry is not    *)
(* marked ACSE_OPT (ACSE_NONE and ACSE_ANY entries, such as the protocol   *)
(* version and the application-context-name, are fatal).  For an entry     *)
(* marked ACSE_OPT the failure is forgiven: the loop goes on and decodes   *)
(* the next header where the failed extract_func left the cursor, and      *)
(* after the last entry the decoder returns TRUE.                          *)
(***************************************************************************)
C22_FailureIsFatalUnlessOptional ==
    FromIdle
        => \A j \in Failures :
              IF Entry(call.trace[j]).context # ACSE_OPT
              THEN /\ call.decoder = "failed"
                   /\ j = Len(call.trace)
                   /\ PassOf(call.trace[j]) = call.passes[Len(call.passes)]
                   /\ PassOf(call.trace[j]).rd_after = call.trace[j].rd_after
              ELSE IF call.trace[j].index = CSM_ACSE_AARQ_CHAIN_SIZE - 1
              THEN call.decoder = "ok"
              ELSE /\ PassOf(call.trace[j]).ret = HeaderAt(call.trace[j].rd_after).ok
                   /\ PassOf(call.trace[j]).rd_after
                          = HeaderAt(call.trace[j].rd_after).array.rd_index
                   /\ PassOf(call.trace[j]).ret
                         => /\ PassOf(call.trace[j]) # call.passes[Len(call.passes)]
                            /\ \A i \in 1..Len(call.passes) :
                                  call.passes[i].index = call.trace[j].index + 1
                                     => call.passes[i].tag
                                           = HeaderAt(call.trace[j].rd_after).ber.tag

\* the extract_func of an optional field failed and the fields after it were
\* decoded
C22_Witness ==
    /\ FromIdle
    /\ call.decoder = "ok"
    /\ \E j \in Failures :
          /\ Entry(call.trace[j]).context = ACSE_OPT
          /\ j < Len(call.trace)
          /\ call.trace[j + 1].ret

\* acse_user_info_decoder was called
UserInfoCalled ==
    \E j \in 1..Len(call.trace) : call.trace[j].index = UserInformationEntry

\* the user-information whose contents start after at bytes of the packet is
\* an octet string that holds an InitiateRequest with the version 6, the
\* header 5F 1F of length 4, the unused-bits byte 0, and all the bytes of the
\* conformance and of the size
WellFormedInitiateRequest(bytes, at) ==
    /\ Len(bytes) >= at + 16
    /\ bytes[at + 1] = BER_TYPE_OCTET_STRING
    /\ bytes[at + 3] = AXDR_INITIATE_REQUEST
    /\ bytes[at + 7] = 6
    /\ SubSeq(bytes, at + 8, at + 10) = <<95, 31, 4>>
    /\ bytes[at + 11] = 0

(***************************************************************************)
(* C24.  acse_user_info_decoder returns CSM_ACSE_OK only if the inner      *)
(* header is an octet string, the first byte is the tag of an              *)
(* InitiateRequest, the version is 6, the embedded header is 5F 1F with    *)
(* the length 4, the unused-bits byte is 0 and the bytes of the            *)
(* conformance and of the size were all read; and when it returns          *)
(* CSM_ACSE_ERR, handshake.proposed_conformance and                        *)
(* handshake.client_max_receive_pdu_size are what they were.               *)
(***************************************************************************)
C24_UserInfoSucceedsOnlyWhenWellFormed ==
    (FromIdle /\ UserInfoCalled)
        => IF UserInfoDecoded
           THEN WellFormedInitiateRequest(Received, UserInfoAt)
           ELSE /\ handshake.proposed_conformance = call.asso.handshake.proposed_conformance
                /\ handshake.client_max_receive_pdu_size
                       = call.asso.handshake.client_max_receive_pdu_size

\* the contents of the responding authentication value of the AARE in the
\* packet, and of the calling authentication value of the AARQ received:
\* 80, the length of the challenge, the challenge
RespondingAuthValue == Field(Reply, 3, CSM_ASSO_RESP_AUTH_VALUE)

CallingAuthValue == Field(Received, 3, CSM_ASSO_CALLING_AUTH_VALUE)

(***************************************************************************)
(* C25.  Every AARE produced with auth_level CSM_AUTH_HIGH_LEVEL_GMAC      *)
(* holds a responding authentication value whose challenge is as long as   *)
(* the challenge of the client received in the same AARQ;                  *)
(* handshake.stoc.size is handshake.ctos.size afterwards, and the bytes of *)
(* handshake.stoc.value are the bytes of the challenge written into the    *)
(* AARE.                                                                   *)
(***************************************************************************)
C25_ServerChallengeMirrorsTheClientChallenge ==
    (FromIdle /\ call.encoder = "ok" /\ auth_level = CSM_AUTH_HIGH_LEVEL_GMAC)
        => /\ Len(RespondingAuthValue) >= 2
           /\ RespondingAuthValue[1] = TAG_CONTEXT_SPECIFIC
           /\ RespondingAuthValue[2] = Len(RespondingAuthValue) - 2
           /\ Len(CallingAuthValue) >= 2
           /\ RespondingAuthValue[2] = CallingAuthValue[2]
           /\ handshake.stoc.size = handshake.ctos.size
           /\ handshake.stoc.size = RespondingAuthValue[2]
           /\ handshake.stoc.value = SubSeq(RespondingAuthValue, 3, Len(RespondingAuthValue))

\* an association as the program starts it: zeroed, then csm_asso_init
NewAsso ==
    csm_asso_init([state_cf |-> CF_IDLE, auth_level |-> 0, ref |-> 0,
                   client_app_title |-> [i \in 1..CSM_DEF_APP_TITLE_SIZE |-> 0],
                   handshake |-> [ctos |-> [value |-> <<>>, size |-> 0],
                                  stoc |-> [value |-> <<>>, size |-> 0],
                                  proposed_conformance |-> 0,
                                  client_max_receive_pdu_size |-> 0,
                                  result |-> CSM_ASSO_ERR_NULL],
                   config |-> config])

\* the call ended as the call x: the same state, the same result of the
\* handshake, the same bytes to send
SameOutcome(x) ==
    /\ x.asso.state_cf = state_cf
    /\ x.asso.handshake.result = handshake.result
    /\ x.bytes_to_reply = bytes_to_reply
    /\ SubSeq(x.packet.buff, 1, x.bytes_to_reply) = Reply

(***************************************************************************)
(* C26.  What a call made in CF_IDLE ends with depends on the packet and   *)
(* the configuration only: whatever handshakes the association went        *)
(* through before, state_cf, handshake.result and the bytes of the AARE    *)
(* are those that a new association gives for the same packet.  The        *)
(* auth_level and the challenge that an earlier AARQ left have no part in  *)
(* it.                                                                     *)
(***************************************************************************)
C26_OutcomeDependsOnThePacketOnly ==
    FromIdle
        => \E env \in Envs : SameOutcome(csm_asso_execute(NewAsso, Packet(Received), env))

(***************************************************************************)
(* C27.  When a call made in CF_IDLE returns 0, so that no AARE is sent,   *)
(* the association is still CF_IDLE: it is never CF_ASSOCIATED or          *)
(* CF_ASSOCIATION_PENDING after a call that gave no reply, also when the   *)
(* encoding of the AARE fails after csm_asso_is_granted granted the        *)
(* association.                                                            *)
(***************************************************************************)
C27_NoReplyLeavesTheAssociationIdle ==
    (FromIdle /\ bytes_to_reply = 0) => state_cf = CF_IDLE

\* the call was the first one after csm_asso_init
FirstCall == FromIdle /\ call.asso = csm_asso_init(call.asso)

(***************************************************************************)
(* C28.  The first call after csm_asso_init leaves CF_IDLE (for            *)
(* CF_ASSOCIATED or CF_ASSOCIATION_PENDING) only if its AARQ held an       *)
(* application-context-name with an object identifier that                 *)
(* acse_oid_decoder knows: ref is not NO_REF then.                         *)
(***************************************************************************)
C28_AssociationNeedsAnApplicationContext ==
    (FirstCall /\ state_cf # CF_IDLE)
        => /\ ref # NO_REF
           /\ \E j \in 1..Len(call.trace) : call.trace[j].index = 2 /\ call.trace[j].ret

(***************************************************************************)
(* C29.  In every state reached from csm_asso_init by calls of             *)
(* csm_asso_execute, auth_level is CSM_AUTH_LOWEST_LEVEL,                  *)
(* CSM_AUTH_LOW_LEVEL or CSM_AUTH_HIGH_LEVEL_GMAC: the branch of           *)
(* csm_asso_is_granted that sets handshake.result to CSM_ASSO_AUTH_UNKNOWN *)
(* is never taken, and no AARE carries that diagnostic.                    *)
(***************************************************************************)
C29_AuthLevelIsAlwaysSupported ==
    /\ auth_level \in {CSM_AUTH_LOWEST_LEVEL, CSM_AUTH_LOW_LEVEL, CSM_AUTH_HIGH_LEVEL_GMAC}
    /\ handshake.result # CSM_ASSO_AUTH_UNKNOWN
    /\ (FromIdle /\ call.encoder = "ok") => Diagnostic # CSM_ASSO_AUTH_UNKNOWN

\* an AARQ whose mechanism-name names a level that is not supported was
\* decoded and answered
C29_Witness ==
    /\ FromIdle
    /\ call.request.mech \in {"high", "other"}
    /\ \E j \in 1..Len(call.trace) : call.trace[j].index = 16 /\ ~call.trace[j].ret
    /\ call.encoder = "ok"

\* the tags of the fields of the packet received, after its outer header
ReceivedTags == Tags(Received, 3)

(***************************************************************************)
(* C30.  Whatever the packet, the decode loop of the AARQ ends after at    *)
(* most as many passes as aarq_codec_chain has entries (20): decoder_index *)
(* grows by one with every pass, an entry is compared with a tag at most   *)
(* once and never gone back to, so that a field that comes after the place *)
(* of its entry is passed is not decoded.                                  *)
(***************************************************************************)
C30_DecodeLoopGoesThroughTheChainOnce ==
    FromIdle
        => /\ Len(call.passes) <= CSM_ACSE_AARQ_CHAIN_SIZE
           /\ \A i \in 1..Len(call.passes) : call.passes[i].index = i - 1
           /\ \A i \in 1..Len(call.passes) :
                 call.passes[i].matched
                    <=> \E j \in 1..Len(call.trace) :
                           call.trace[j].index = call.passes[i].index
           /\ \A j, k \in 1..Len(call.trace) :
                 j < k => /\ call.trace[j].index < call.trace[k].index
                          /\ call.trace[j].rd_index < call.trace[k].rd_index

\* the sender-acse-requirements came after the mechanism-name: the loop ended
\* on them at the end of the chain without decoding them or what follows
C30_Witness ==
    /\ FromIdle
    /\ call.decoder = "ok"
    /\ \E m, r \in 1..Len(ReceivedTags) :
          /\ m < r
          /\ ReceivedTags[m] = CSM_ASSO_REQ_MECHANISM_NAME
          /\ ReceivedTags[r] = CSM_ASSO_SENDER_ACSE_REQU
    /\ call.passes[Len(call.passes)].tag = CSM_ASSO_SENDER_ACSE_REQU
    /\ ~call.passes[Len(call.passes)].matched
    /\ Len(call.passes) = CSM_ACSE_AARQ_CHAIN_SIZE
    /\ \A j \in 1..Len(call.trace) : call.trace[j].index <= 16

====
